---------------------------- MODULE Spec2Model ----------------------------
(***************************************************************************)
(* Compliance screening of advisor communications, PII detection in        *)
(* meeting transcripts, fact checking of risk narratives and chunking of   *)
(* documents.                                                              *)
(*                                                                         *)
(*   _rule_based_checks      models/compliance-checker/src/checker.py      *)
(*   demo_compliance_check   governance/app/main.py                        *)
(*   _detect_pii             models/meeting-summarizer/src/summarizer.py   *)
(*   _fact_check_narrative   models/portfolio-risk-narrator/src/narrator.py *)
(*   demo_risk_narrative    governance/app/main.py                        *)
(*   _chunk_text             models/document-intelligence/src/rag.py       *)
(*                                                                         *)
(* A text is a sequence of one-character strings, so that regular          *)
(* expression matching, lower-casing, slicing and substring containment    *)
(* are computed on characters as the Python code computes them.  Risk      *)
(* scores are held in thousandths (0.2 is 200, 1.0 is 1000).               *)
(***************************************************************************)
EXTENDS Integers, Sequences, FiniteSets, TLC

(***************************************************************************)
(* Characters and strings                                                  *)
(***************************************************************************)
UpperCase == <<"A","B","C","D","E","F","G","H","I","J","K","L","M",
               "N","O","P","Q","R","S","T","U","V","W","X","Y","Z">>

LowerCase == <<"a","b","c","d","e","f","g","h","i","j","k","l","m",
               "n","o","p","q","r","s","t","u","v","w","x","y","z">>

Digit == {"0","1","2","3","4","5","6","7","8","9"}

\* \w of the re module on str patterns, for the characters texts are made of
WordChar == {UpperCase[i] : i \in 1..26} \cup {LowerCase[i] : i \in 1..26}
              \cup Digit \cup {"_"}

\* \s of the re module
WhiteSpace == {" ", "\t", "\n", "\r", "\f"}

\* str.lower() on one character
LowerOf ==
    [c \in {UpperCase[i] : i \in 1..26} |->
        LowerCase[CHOOSE i \in 1..26 : UpperCase[i] = c]]

ToLower(c) == IF c \in DOMAIN LowerOf THEN LowerOf[c] ELSE c

\* str.lower()
Lower(s) == [i \in 1..Len(s) |-> ToLower(s[i])]

Max(a, b) == IF a >= b THEN a ELSE b

Min(a, b) == IF a <= b THEN a ELSE b

\* s[lo:hi] with 0 <= lo, Python slice semantics (hi clipped to len(s))
Slice(s, lo, hi) == SubSeq(s, lo + 1, Min(hi, Len(s)))

\* a in b, for strings
Contains(b, a) ==
    \E i \in 0..(Len(b) - Len(a)) : SubSeq(b, i + 1, i + Len(a)) = a

\* s.strip()
RECURSIVE LStrip(_)
LStrip(s) ==
    IF s # <<>> /\ Head(s) \in WhiteSpace THEN LStrip(Tail(s)) ELSE s

RECURSIVE RStrip(_)
RStrip(s) ==
    IF s # <<>> /\ s[Len(s)] \in WhiteSpace
    THEN RStrip(SubSeq(s, 1, Len(s) - 1))
    ELSE s

Strip(s) == RStrip(LStrip(s))

(***************************************************************************)
(* Regular expressions.  A pattern is \b e1 e2 ... en \b where each        *)
(* element is a character class, possibly optional (the ? quantifier).     *)
(* Offsets are Python offsets: a match spans s[start:end].                 *)
(***************************************************************************)
Lit(str) == [i \in 1..Len(str) |-> [cs |-> {str[i]}, opt |-> FALSE]]

Opt(chars) == << [cs |-> chars, opt |-> TRUE] >>

Cls(chars) == << [cs |-> chars, opt |-> FALSE] >>

\* \b at offset pos of s
AtBoundary(s, pos) ==
    LET before == pos >= 1 /\ s[pos] \in WordChar
        after  == pos < Len(s) /\ s[pos + 1] \in WordChar
    IN  before # after

NoEnd == -1

\* End offset of the match of elements k.. of pat at offset pos followed by
\* \b, by greedy backtracking; NoEnd if there is none.
RECURSIVE MatchEnd(_, _, _, _)
MatchEnd(pat, k, s, pos) ==
    IF k > Len(pat)
    THEN IF AtBoundary(s, pos) THEN pos ELSE NoEnd
    ELSE LET e    == pat[k]
             hit  == pos < Len(s) /\ s[pos + 1] \in e.cs
             with == IF hit THEN MatchEnd(pat, k + 1, s, pos + 1) ELSE NoEnd
         IN  IF with # NoEnd THEN with
             ELSE IF e.opt THEN MatchEnd(pat, k + 1, s, pos)
             ELSE NoEnd

NoMatch == [start |-> -1, end |-> -1]

\* the offsets a match of pat starts at; every pattern in use begins with a
\* mandatory element, which is tried first
MatchStarts(pat, s) ==
    {p \in 0..(Len(s) - 1) : s[p + 1] \in pat[1].cs /\ AtBoundary(s, p)
                                /\ MatchEnd(pat, 1, s, p) # NoEnd}

\* re.search(pattern, s): the leftmost match
re_search(pat, s) ==
    LET starts == MatchStarts(pat, s)
    IN  IF starts = {} THEN NoMatch
        ELSE LET p == CHOOSE p \in starts : \A q \in starts : p <= q
             IN  [start |-> p, end |-> MatchEnd(pat, 1, s, p)]

\* match.group()
Group(s, m) == Slice(s, m.start, m.end)


(***************************************************************************)
(* Pattern tables                                                          *)
(***************************************************************************)
Separator == WhiteSpace \cup {"-"}

\* checker.py: promissory_patterns
promissory_patterns == <<
    Lit(<<"g","u","a","r","a","n","t","e","e">>) \o Opt({"d", "s"}),
    Lit(<<"r","i","s","k">>) \o Opt(Separator) \o Lit(<<"f","r","e","e">>),
    Lit(<<"c","a","n">>) \o Opt({"'"}) \o Lit(<<"t"," ","l","o","s","e">>),
    Lit(<<"w","i","l","l"," ","d","e","f","i","n","i","t","e","l","y">>),
    Lit(<<"s","u","r","e"," ","t","h","i","n","g">>),
    Lit(<<"n","o"," ","r","i","s","k">>),
    Lit(<<"c","e","r","t","a","i","n"," ","t","o">>),
    Lit(<<"a","s","s","u","r","e","d">>) >>

\* main.py: the (pattern, word) table of demo_compliance_check
demo_patterns == <<
    [pattern |-> Lit(<<"g","u","a","r","a","n","t","e","e">>) \o Opt({"d", "s"}), word |-> "guaranteed"],
    [pattern |-> Lit(<<"r","i","s","k">>) \o Opt(Separator) \o Lit(<<"f","r","e","e">>), word |-> "risk-free"],
    [pattern |-> Lit(<<"c","a","n">>) \o Opt({"'"}) \o Lit(<<"t"," ","l","o","s","e">>), word |-> "can't lose"],
    [pattern |-> Lit(<<"w","i","l","l"," ","d","e","f","i","n","i","t","e","l","y">>), word |-> "will definitely"],
    [pattern |-> Lit(<<"s","u","r","e"," ","t","h","i","n","g">>), word |-> "sure thing"],
    [pattern |-> Lit(<<"n","o"," ","r","i","s","k">>), word |-> "no risk"],
    [pattern |-> Lit(<<"a","s","s","u","r","e","d"," ","r","e","t","u","r","n">>) \o Opt({"s"}), word |-> "assured returns"] >>

\* \b\d{3}-\d{2}-\d{4}\b
ssn_pattern ==
    Cls(Digit) \o Cls(Digit) \o Cls(Digit) \o Lit(<<"-">>) \o Cls(Digit) \o Cls(Digit)
      \o Lit(<<"-">>) \o Cls(Digit) \o Cls(Digit) \o Cls(Digit) \o Cls(Digit)

\* the disclaimer phrases of both call sites
DisclaimerPhrases == {
    <<"p","a","s","t"," ","p","e","r","f","o","r","m","a","n","c","e">>,
    <<"n","o"," ","g","u","a","r","a","n","t","e","e">>,
    <<"n","o","t"," ","i","n","d","i","c","a","t","i","v","e">>,
    <<"m","a","y"," ","l","o","s","e"," ","v","a","l","u","e">> }

\* (return|performance|gain|yield|annual)
PerformanceWords == {
    <<"r","e","t","u","r","n">>,
    <<"p","e","r","f","o","r","m","a","n","c","e">>,
    <<"g","a","i","n">>,
    <<"y","i","e","l","d">>,
    <<"a","n","n","u","a","l">> }

\* (great|excellent|outstanding|superior|best|top|outperform)
PositiveWords == {
    <<"g","r","e","a","t">>,
    <<"e","x","c","e","l","l","e","n","t">>,
    <<"o","u","t","s","t","a","n","d","i","n","g">>,
    <<"s","u","p","e","r","i","o","r">>,
    <<"b","e","s","t">>,
    <<"t","o","p">>,
    <<"o","u","t","p","e","r","f","o","r","m">> }

\* (risk|loss|decline|volatility|uncertainty|downturn)
RiskWords == {
    <<"r","i","s","k">>,
    <<"l","o","s","s">>,
    <<"d","e","c","l","i","n","e">>,
    <<"v","o","l","a","t","i","l","i","t","y">>,
    <<"u","n","c","e","r","t","a","i","n","t","y">>,
    <<"d","o","w","n","t","u","r","n">> }

StartsWith(s, pos, w) ==
    pos + Len(w) <= Len(s) /\ SubSeq(s, pos + 1, pos + Len(w)) = w

\* offset after the run of whitespace that starts at offset pos
RECURSIVE SkipSpace(_, _)
SkipSpace(s, pos) ==
    IF pos < Len(s) /\ s[pos + 1] \in WhiteSpace THEN SkipSpace(s, pos + 1) ELSE pos

\* re.search(r"\d+\.?\d*%\s*(return|performance|gain|yield|annual)", s) is not
\* None.  A match ends its number at a "%" that follows a digit, or a "." that
\* follows a digit; whitespace is skipped and one of the words must follow.
has_performance_match(s) ==
    \E p \in 1..Len(s) :
        /\ s[p] = "%"
        /\ \/ p >= 2 /\ s[p - 1] \in Digit
           \/ p >= 3 /\ s[p - 1] = "." /\ s[p - 2] \in Digit
        /\ \E w \in PerformanceWords : StartsWith(s, SkipSpace(s, p), w)

\* CountWords without the two \b: occurrences inside longer words count too
CountWordsAnywhere(words, s) ==
    Cardinality({p \in 0..(Len(s) - 1) : \E w \in words : StartsWith(s, p, w)})

\* len(re.findall(r"\b(w1|w2|...)\b", s)): the words are runs of word
\* characters between two boundaries, so matches never overlap.
CountWords(words, s) ==
    Cardinality({p \in 0..(Len(s) - 1) :
        /\ AtBoundary(s, p)
        /\ \E w \in words : StartsWith(s, p, w) /\ AtBoundary(s, p + Len(w))})

any_disclaimer(s) == \E phrase \in DisclaimerPhrases : Contains(s, phrase)

(***************************************************************************)
(* checker.py: _rule_based_checks                                          *)
(***************************************************************************)
PROMISSORY_LANGUAGE == "promissory_language"
MISSING_DISCLOSURE == "missing_disclosure"
PII_IN_EXTERNAL == "pii_in_external_communication"
UNBALANCED_PRESENTATION == "unbalanced_presentation"

APPROVED == "approved"
REQUIRES_CHANGES == "requires_changes"
REJECTED == "rejected"
ESCALATE == "escalate"

ComplianceDecision == {APPROVED, REQUIRES_CHANGES, REJECTED, ESCALATE}

SSN_REDACTED == <<"[","S","S","N"," ","R","E","D","A","C","T","E","D","]">>

PAST_PERFORMANCE_DISCLOSURE ==
    "Past performance is not indicative of future results. Investments may lose value."

SENIOR_WARNING ==
    "SENIOR INVESTOR: This communication contains recommendations to a senior investor."

\* the context window of an evidence slice, in characters
CheckerWindow == 20

DemoWindow == 30

\* s[lo:hi] as Python computes it when lo may be negative
SliceFrom(s, lo, hi) == Slice(s, IF lo < 0 THEN Max(0, Len(s) + lo) ELSE lo, hi)

\* PromissoryViolation with the start of the window not clamped at 0
PromissoryViolationUnclamped(text, text_lower, match) ==
    [violation_type |-> PROMISSORY_LANGUAGE,
     severity       |-> "high",
     description    |-> <<"Promissory language detected", Group(text_lower, match)>>,
     evidence       |-> SliceFrom(text, match.start - CheckerWindow,
                                  match.end + CheckerWindow),
     regulation     |-> "FINRA Rule 2210(d)(1)(B)",
     suggested_fix  |-> <<"Remove and replace with balanced language",
                          Group(text_lower, match)>>]

\* PromissoryViolation with the evidence cut from the lower-cased text
PromissoryViolationLower(text, text_lower, match) ==
    [violation_type |-> PROMISSORY_LANGUAGE,
     severity       |-> "high",
     description    |-> <<"Promissory language detected", Group(text_lower, match)>>,
     evidence       |-> Slice(text_lower, Max(0, match.start - CheckerWindow),
                              match.end + CheckerWindow),
     regulation     |-> "FINRA Rule 2210(d)(1)(B)",
     suggested_fix  |-> <<"Remove and replace with balanced language",
                          Group(text_lower, match)>>]

\* the Violation appended for a promissory match (checker.py 178-185)
PromissoryViolation(text, text_lower, match) ==
    [violation_type |-> PROMISSORY_LANGUAGE,
     severity       |-> "high",
     description    |-> <<"Promissory language detected", Group(text_lower, match)>>,
     evidence       |-> Slice(text, Max(0, match.start - CheckerWindow),
                              match.end + CheckerWindow),
     regulation     |-> "FINRA Rule 2210(d)(1)(B)",
     suggested_fix  |-> <<"Remove and replace with balanced language",
                          Group(text_lower, match)>>]

\* the Violation appended for an SSN (checker.py 190-197)
SsnViolation ==
    [violation_type |-> PII_IN_EXTERNAL,
     severity       |-> "high",
     description    |-> <<"Social Security Number detected in external communication">>,
     evidence       |-> SSN_REDACTED,
     regulation     |-> "Reg S-P (Privacy of Consumer Financial Information)",
     suggested_fix  |-> <<"Remove all SSN references from external communications">>]

\* already_flagged that looks at the type of the existing findings only
already_flagged_by_type(violations, group) ==
    \E i \in 1..Len(violations) :
        violations[i].violation_type = PROMISSORY_LANGUAGE

\* already_flagged (checker.py 172-176)
already_flagged(violations, group) ==
    \E i \in 1..Len(violations) :
        /\ violations[i].violation_type = PROMISSORY_LANGUAGE
        /\ Contains(Lower(violations[i].evidence), Lower(group))

\* the loop over promissory_patterns from pattern k on (checker.py 169-185);
\* every pass sees the findings the earlier passes appended
RECURSIVE PromissoryLoop(_, _, _, _)
PromissoryLoop(k, violations, text, text_lower) ==
    IF k > Len(promissory_patterns) THEN violations
    ELSE LET match == re_search(promissory_patterns[k], text_lower)
         IN  IF match # NoMatch
                  /\ ~already_flagged(violations, Group(text_lower, match))
             THEN PromissoryLoop(k + 1,
                      Append(violations, PromissoryViolation(text, text_lower, match)),
                      text, text_lower)
             ELSE PromissoryLoop(k + 1, violations, text, text_lower)

\* the PII check (checker.py 188-197)
PiiCheck(violations, text) ==
    IF re_search(ssn_pattern, text) # NoMatch
    THEN Append(violations, SsnViolation)
    ELSE violations

\* DisclosureCheck without the test for a disclaimer in the text
DisclosureCheckAlways(report, text_lower) ==
    IF report.contains_performance_data
    THEN Append(report.required_disclosures, PAST_PERFORMANCE_DISCLOSURE)
    ELSE report.required_disclosures

\* DisclosureCheck that replaces the list instead of appending to it
DisclosureCheckReplacing(report, text_lower) ==
    IF report.contains_performance_data /\ ~any_disclaimer(text_lower)
    THEN <<PAST_PERFORMANCE_DISCLOSURE>>
    ELSE report.required_disclosures

\* performance without disclaimer (checker.py 200-207)
DisclosureCheck(report, text_lower) ==
    IF report.contains_performance_data /\ ~any_disclaimer(text_lower)
    THEN Append(report.required_disclosures, PAST_PERFORMANCE_DISCLOSURE)
    ELSE report.required_disclosures

\* client_context is None
NoContext == [none |-> TRUE]

\* SeniorCheck without the test of is_senior
SeniorCheckAnyClient(report, client_context) ==
    IF report.contains_recommendations
    THEN Append(report.warnings, SENIOR_WARNING)
    ELSE report.warnings

\* senior investor heightened scrutiny (checker.py 210-214)
SeniorCheck(report, client_context) ==
    IF client_context # NoContext /\ client_context.is_senior
          /\ report.contains_recommendations
    THEN Append(report.warnings, SENIOR_WARNING)
    ELSE report.warnings

\* sum(1 for v in violations if v.severity == "high")
HighCount(violations) ==
    Cardinality({i \in 1..Len(violations) : violations[i].severity = "high"})

\* CheckerDecision with the finding-count test ahead of the high-count test
CheckerDecisionCountFirst(decision, violations, warnings) ==
    LET high_violations == HighCount(violations)
    IN  IF high_violations = 1 \/ Len(violations) >= 3 THEN REQUIRES_CHANGES
        ELSE IF high_violations >= 2 THEN REJECTED
        ELSE IF Len(violations) = 0 /\ Len(warnings) = 0 THEN APPROVED
        ELSE decision

\* the decision recalculation (checker.py 217-223); there is no else branch
CheckerDecision(decision, violations, warnings) ==
    LET high_violations == HighCount(violations)
    IN  IF high_violations >= 2 THEN REJECTED
        ELSE IF high_violations = 1 \/ Len(violations) >= 3 THEN REQUIRES_CHANGES
        ELSE IF Len(violations) = 0 /\ Len(warnings) = 0 THEN APPROVED
        ELSE decision

\* RiskScore with the two weights exchanged
RiskScoreSwapped(n, high) == Min(1000, n * 300 + high * 200)

\* RiskScore without the cap
RiskScoreUncapped(n, high) == n * 200 + high * 300

\* RiskScore with the same weight for every finding
RiskScoreEvenWeights(n, high) == Min(1000, n * 200 + high * 200)

\* min(1.0, n * 0.2 + high * 0.3), in thousandths
RiskScore(n, high) == Min(1000, n * 200 + high * 300)

_rule_based_checks(report, text, client_context) ==
    LET text_lower  == Lower(text)
        violations  == PiiCheck(PromissoryLoop(1, report.violations, text, text_lower),
                                text)
        disclosures == DisclosureCheck(report, text_lower)
        warnings    == SeniorCheck(report, client_context)
    IN  [report EXCEPT
            !.violations = violations,
            !.required_disclosures = disclosures,
            !.warnings = warnings,
            !.decision = CheckerDecision(report.decision, violations, warnings),
            !.overall_risk_score = RiskScore(Len(violations), HighCount(violations))]

(***************************************************************************)
(* main.py: demo_compliance_check                                          *)
(***************************************************************************)
PERFORMANCE_EVIDENCE ==
    <<"P","e","r","f","o","r","m","a","n","c","e"," ","p","e","r","c","e","n","t","a","g","e"," ","f","o","u","n","d"," ","w","i","t","h","o","u","t"," ","'","p","a","s","t"," ","p","e","r","f","o","r","m","a","n","c","e","'"," ","d","i","s","c","l","a","i","m","e","r">>

UNBALANCED_EVIDENCE ==
    <<"C","o","m","m","u","n","i","c","a","t","i","o","n"," ","i","s"," ","e","n","t","i","r","e","l","y"," ","p","o","s","i","t","i","v","e"," ","w","i","t","h","o","u","t"," ","r","i","s","k"," ","d","i","s","c","u","s","s","i","o","n">>

\* the loop over the (pattern, word) table from entry k on (main.py 410-426)
RECURSIVE DemoPromissoryLoop(_, _, _, _)
DemoPromissoryLoop(k, violations, text, text_lower) ==
    IF k > Len(demo_patterns) THEN violations
    ELSE LET match   == re_search(demo_patterns[k].pattern, text_lower)
             context == Slice(text, Max(0, match.start - DemoWindow),
                              match.end + DemoWindow)
         IN  IF match # NoMatch
             THEN DemoPromissoryLoop(k + 1,
                      Append(violations,
                          [type        |-> "promissory_language",
                           severity    |-> "high",
                           description |-> <<"Promissory language", demo_patterns[k].word>>,
                           evidence    |-> Strip(context),
                           regulation  |-> "FINRA Rule 2210(d)(1)(B)",
                           fix         |-> <<"Remove and add risk disclaimers",
                                             demo_patterns[k].word>>]),
                      text, text_lower)
             ELSE DemoPromissoryLoop(k + 1, violations, text, text_lower)

\* performance without disclaimer (main.py 429-439)
DemoDisclosureCheck(violations, text_lower) ==
    IF has_performance_match(text_lower) /\ ~any_disclaimer(text_lower)
    THEN Append(violations,
            [type        |-> "missing_disclosure",
             severity    |-> "high",
             description |-> <<"Performance data cited without required disclaimer">>,
             evidence    |-> PERFORMANCE_EVIDENCE,
             regulation  |-> "SEC Marketing Rule 206(4)-1",
             fix         |-> <<"Add the past performance disclaimer">>])
    ELSE violations

\* PII detection (main.py 442-450)
DemoPiiCheck(violations, text) ==
    IF re_search(ssn_pattern, text) # NoMatch
    THEN Append(violations,
            [type        |-> "pii_in_external",
             severity    |-> "high",
             description |-> <<"Social Security Number detected in communication">>,
             evidence    |-> SSN_REDACTED,
             regulation  |-> "Reg S-P",
             fix         |-> <<"Remove all SSN references">>])
    ELSE violations

\* unbalanced presentation (main.py 453-463)
DemoBalanceCheck(violations, text_lower) ==
    LET positive_words == CountWords(PositiveWords, text_lower)
        risk_words     == CountWords(RiskWords, text_lower)
    IN  IF positive_words >= 3 /\ risk_words = 0
        THEN Append(violations,
                [type        |-> "unbalanced_presentation",
                 severity    |-> "medium",
                 description |-> <<"Unbalanced", positive_words>>,
                 evidence    |-> UNBALANCED_EVIDENCE,
                 regulation  |-> "FINRA Rule 2210(d)(1)(A) - Fair and Balanced",
                 fix         |-> <<"Add balanced discussion of risks">>])
        ELSE violations

\* the decision logic (main.py 466-474)
DemoDecision(violations) ==
    LET high_count == HighCount(violations)
    IN  IF high_count >= 2 THEN "rejected"
        ELSE IF high_count = 1 \/ Len(violations) >= 2 THEN "requires_changes"
        ELSE IF Len(violations) = 0 THEN "approved"
        ELSE "requires_changes"

\* round(x, 2) of a score in thousandths
Round2(x) == ((x + 5) \div 10) * 10

\* body.get("text", " "): a blank text in place of a missing one
body_get_text_blank(body) == IF "text" \in DOMAIN body THEN body["text"] ELSE <<" ">>

\* body.get("text", "")
body_get_text(body) == IF "text" \in DOMAIN body THEN body["text"] ELSE <<>>

demo_compliance_check(body) ==
    LET text       == body_get_text(body)
        text_lower == Lower(text)
        violations ==
            DemoBalanceCheck(
                DemoPiiCheck(
                    DemoDisclosureCheck(
                        DemoPromissoryLoop(1, <<>>, text, text_lower),
                        text_lower),
                    text),
                text_lower)
    IN  IF text = <<>>
        THEN [error |-> "Provide 'text' field with draft communication text"]
        ELSE [model                |-> "Compliance Checker v1.0.0",
              mode                 |-> "fully_functional",
              input_length         |-> Len(text),
              decision             |-> DemoDecision(violations),
              violations_count     |-> Len(violations),
              violations           |-> violations,
              risk_score           |-> Round2(RiskScore(Len(violations),
                                                        HighCount(violations))),
              required_disclosures |->
                  IF has_performance_match(text_lower) /\ ~any_disclaimer(text_lower)
                  THEN <<PAST_PERFORMANCE_DISCLOSURE>>
                  ELSE <<>>]

(***************************************************************************)
(* main.py: demo_risk_narrative.  The "portfolio" field is a JSON string   *)
(* or a dictionary; a dictionary is a sequence of [key, value] entries in  *)
(* insertion order, and a sentence of the commentary is the tuple of the   *)
(* parts of its f-string.                                                  *)
(***************************************************************************)
InvalidJson == [JSONDecodeError |-> TRUE]

\* '{"volatility_pct": 16.0}'
VolatilityDocument ==
    <<"{","\"","v","o","l","a","t","i","l","i","t","y","_","p","c","t","\"",":"," ","1","6",".","0","}">>

\* json.loads on the request strings: the one document, or a JSONDecodeError
json_loads(s) ==
    IF s = VolatilityDocument
    THEN [value |-> <<[key |-> "volatility_pct", value |-> 16000]>>]
    ELSE InvalidJson

\* data.get(key, default)
data_get(data, key, default) ==
    IF \E i \in 1..Len(data) : data[i].key = key
    THEN data[CHOOSE i \in 1..Len(data) : data[i].key = key].value
    ELSE default

\* round(x, 2) of a score in thousandths that is a multiple of 1/8: half to even
RoundHalfEven2(x) ==
    LET q == x \div 10
        r == x % 10
    IN  IF r > 5 \/ (r = 5 /\ q % 2 = 1) THEN (q + 1) * 10 ELSE q * 10

\* the commentary list (main.py 303-319)
Commentary(client, total_value, ytd, vol, sharpe) ==
    <<  <<"Portfolio for ", client, " with total value $", total_value, ".">>,
        IF ytd > 0
        THEN <<"Year-to-date return of ", ytd, "% indicates positive performance.">>
        ELSE <<"Year-to-date return of ", ytd, "% - portfolio is underperforming.">> >>
    \o (IF vol > 15000
        THEN << <<"Annualized volatility of ", vol, "% is above the moderate threshold">> >>
        ELSE IF vol > 0
        THEN << <<"Annualized volatility of ", vol, "% is within acceptable range.">> >>
        ELSE <<>>)
    \o (IF sharpe > 1000
        THEN << <<"Sharpe ratio of ", sharpe, " indicates efficient risk-adjusted returns.">> >>
        ELSE IF sharpe > 0
        THEN << <<"Sharpe ratio of ", sharpe, " is below optimal">> >>
        ELSE <<>>)

demo_risk_narrative(body) ==
    LET raw  == IF "portfolio" \in DOMAIN body THEN body["portfolio"] ELSE [str |-> <<>>]
        read == IF "str" \in DOMAIN raw THEN json_loads(raw.str) ELSE [value |-> raw.dict]
        data == read.value
        vol  == data_get(data, "volatility_pct", 0)
    IN  IF ("str" \in DOMAIN raw /\ raw.str = <<>>) \/ ("dict" \in DOMAIN raw /\ raw.dict = <<>>)
        THEN [error |-> "Provide 'portfolio' field with JSON data"]
        ELSE IF read = InvalidJson
        THEN [error |-> "Invalid JSON in 'portfolio' field"]
        ELSE [model        |-> "Portfolio Risk Narrator v1.0.0",
              mode         |-> "rule_based_narrative",
              input_fields |-> Len(data),
              narrative    |->
                  [executive_summary |->
                       Commentary(data_get(data, "client_name", "Client"),
                                  data_get(data, "total_value", 0),
                                  data_get(data, "ytd_return_pct", 0),
                                  vol,
                                  data_get(data, "sharpe_ratio", 0)),
                   data_points_used  |-> [i \in 1..Len(data) |-> data[i].key],
                   risk_flags        |-> IF vol > 15000
                                         THEN << <<"High volatility (", vol, "%)">> >>
                                         ELSE <<>>,
                   confidence_score  |->
                       RoundHalfEven2(Min(1000, (Len(data) * 1000) \div 8))],
              note         |-> "Rule-based narrative."]

(***************************************************************************)
(* summarizer.py: _detect_pii.  The five patterns use bounded and          *)
(* unbounded repetition and optional groups; a pattern is a set of         *)
(* alternatives (one per choice of its optional groups), an alternative a  *)
(* sequence of items: \b, or a character class repeated lo..hi times.      *)
(* Only re.search(...) being None or not is read, so a pattern is found    *)
(* when some alternative matches at some offset.  Every class of the table *)
(* is closed under case, so re.IGNORECASE changes no match.                *)
(***************************************************************************)
\* the upper limit of + and {n,}
Unbounded == 1000

Bnd == << [b |-> TRUE, cs |-> {}, lo |-> 0, hi |-> 0] >>

Rep(chars, lo, hi) == << [b |-> FALSE, cs |-> chars, lo |-> lo, hi |-> hi] >>

\* the offsets at which a match of items k.. of alt that starts at pos may end
RECURSIVE Ends(_, _, _, _)
Ends(alt, k, s, pos) ==
    IF k > Len(alt) THEN {pos}
    ELSE LET e == alt[k]
         IN  IF e.b
             THEN IF AtBoundary(s, pos) THEN Ends(alt, k + 1, s, pos) ELSE {}
             ELSE UNION {Ends(alt, k + 1, s, pos + n) :
                     n \in {m \in e.lo..Min(e.hi, Len(s) - pos) :
                               \A i \in 1..m : s[pos + i] \in e.cs}}

\* re.search(pattern, s, re.IGNORECASE) is not None
found(pattern, s) ==
    \E alt \in pattern : \E pos \in 0..Len(s) : Ends(alt, 1, s, pos) # {}

Letter == {UpperCase[i] : i \in 1..26} \cup {LowerCase[i] : i \in 1..26}

\* [-.\s]?
PhoneSep == Rep({"-", "."} \cup WhiteSpace, 0, 1)

\* \(?\d{3}\)?[-.\s]?\d{3}[-.\s]?\d{4}\b
PhoneBody ==
    Rep({"("}, 0, 1) \o Rep(Digit, 3, 3) \o Rep({")"}, 0, 1) \o PhoneSep
      \o Rep(Digit, 3, 3) \o PhoneSep \o Rep(Digit, 4, 4) \o Bnd

\* the patterns dictionary of _detect_pii, in insertion order
patterns == <<
    [pii_type |-> "ssn",
     pattern  |-> {Bnd \o Rep(Digit, 3, 3) \o Rep({"-"}, 1, 1) \o Rep(Digit, 2, 2)
                     \o Rep({"-"}, 1, 1) \o Rep(Digit, 4, 4) \o Bnd}],
    [pii_type |-> "account_number",
     pattern  |-> {Bnd \o Rep(Digit, 8, 12) \o Bnd}],
    [pii_type |-> "phone",
     pattern  |-> {Bnd \o PhoneBody,
                   Bnd \o Rep({"+"}, 1, 1) \o Rep({"1"}, 1, 1) \o PhoneSep \o PhoneBody}],
    [pii_type |-> "email",
     pattern  |-> {Bnd \o Rep(Letter \cup Digit \cup {".", "_", "%", "+", "-"}, 1, Unbounded)
                     \o Rep({"@"}, 1, 1)
                     \o Rep(Letter \cup Digit \cup {".", "-"}, 1, Unbounded)
                     \o Rep({"."}, 1, 1) \o Rep(Letter \cup {"|"}, 2, Unbounded) \o Bnd}],
    [pii_type |-> "dollar_amount",
     pattern  |-> {Rep({"$"}, 1, 1) \o Rep(Digit \cup {","}, 1, Unbounded),
                   Rep({"$"}, 1, 1) \o Rep(Digit \cup {","}, 1, Unbounded)
                     \o Rep({"."}, 1, 1) \o Rep(Digit, 2, 2)}] >>

PII_EXPOSED == "pii_exposed"

SUITABILITY_CONCERN == "suitability_concern"

\* the loop over patterns.items() from entry k on (summarizer.py 157-159)
RECURSIVE PiiTypes(_, _, _)
PiiTypes(k, pii_types, transcript) ==
    IF k > Len(patterns) THEN pii_types
    ELSE PiiTypes(k + 1,
             IF found(patterns[k].pattern, transcript)
             THEN Append(pii_types, patterns[k].pii_type)
             ELSE pii_types,
             transcript)

\* "x" in pii_types
InList(x, list) == \E i \in 1..Len(list) : list[i] = x

\* the ComplianceCheck appended for sensitive PII (summarizer.py 165-170)
PiiFlag(pii_types) ==
    [flag        |-> PII_EXPOSED,
     description |-> "Sensitive PII detected in transcript - ensure redaction before storage",
     severity    |-> "high",
     evidence    |-> <<"PII types detected", pii_types>>]

\* the test of summarizer.py 164
Sensitive(pii_types) == InList("ssn", pii_types) \/ InList("account_number", pii_types)

\* _detect_pii that builds its result from an empty MeetingSummary
_detect_pii_from_defaults(summary, transcript) ==
    LET pii_types == PiiTypes(1, <<>>, transcript)
    IN  [compliance_flags |-> IF Sensitive(pii_types) THEN <<PiiFlag(pii_types)>> ELSE <<>>,
         pii_detected     |-> pii_types,
         confidence_score |-> 0]

\* _detect_pii that extends the pii_detected list of the summary
_detect_pii_extending(summary, transcript) ==
    LET pii_types == PiiTypes(1, <<>>, transcript)
    IN  [summary EXCEPT
            !.pii_detected = summary.pii_detected \o pii_types,
            !.compliance_flags =
                IF Sensitive(pii_types)
                THEN Append(summary.compliance_flags, PiiFlag(pii_types))
                ELSE summary.compliance_flags]

_detect_pii(summary, transcript) ==
    LET pii_types == PiiTypes(1, <<>>, transcript)
    IN  [summary EXCEPT
            !.pii_detected = pii_types,
            !.compliance_flags =
                IF Sensitive(pii_types)
                THEN Append(summary.compliance_flags, PiiFlag(pii_types))
                ELSE summary.compliance_flags]

(***************************************************************************)
(* narrator.py: _fact_check_narrative.  Numbers are held in thousandths    *)
(* (14.2 is 14200), exact for literals of up to three decimals, which is   *)
(* what the narratives below hold; confidence_score is in thousandths,     *)
(* rounded down.                                                           *)
(***************************************************************************)
\* the 0.01 of abs(num - abs(source_val)) < 0.01
Tolerance == 10

\* the 1 of num > 1
SmallNumber == 1000

Abs(x) == IF x < 0 THEN -x ELSE x

\* the numeric fields of PortfolioData, in declared order
NumericFields == <<
    "total_value", "mtd_return_pct", "qtd_return_pct", "ytd_return_pct",
    "one_year_return_pct", "benchmark_ytd_pct", "volatility_pct", "sharpe_ratio",
    "max_drawdown_pct", "beta", "var_95_pct", "cvar_95_pct", "equity_pct",
    "fixed_income_pct", "alternatives_pct", "cash_pct", "top_holding_pct" >>

\* the keys of the source_numbers dictionary, in insertion order
SourceFields == <<
    "total_value", "mtd_return_pct", "qtd_return_pct", "ytd_return_pct",
    "volatility_pct", "sharpe_ratio", "max_drawdown_pct", "beta", "var_95_pct",
    "equity_pct", "fixed_income_pct", "top_holding_pct" >>

source_numbers(portfolio) ==
    [k \in 1..Len(SourceFields) |->
        [field_name |-> SourceFields[k], source_val |-> portfolio[SourceFields[k]]]]

\* " ".join([executive_summary, performance_commentary, risk_assessment])
full_text(narrative) ==
    narrative.executive_summary \o <<" ">> \o narrative.performance_commentary
      \o <<" ">> \o narrative.risk_assessment

\* offset after the run of digits that starts at offset pos
RECURSIVE DigitsEnd(_, _)
DigitsEnd(s, pos) ==
    IF pos < Len(s) /\ s[pos + 1] \in Digit THEN DigitsEnd(s, pos + 1) ELSE pos

\* re.findall(r'[\d]+\.[\d]+|[\d]+', s) from offset pos on: at a digit the
\* whole run is taken, with a "." and the digit run after it if there is one
RECURSIVE findall(_, _)
findall(s, pos) ==
    IF pos >= Len(s) THEN <<>>
    ELSE IF s[pos + 1] \notin Digit THEN findall(s, pos + 1)
    ELSE LET int_end  == DigitsEnd(s, pos)
             frac_end == IF int_end < Len(s) /\ s[int_end + 1] = "."
                         THEN DigitsEnd(s, int_end + 1) ELSE int_end
             end      == IF frac_end > int_end + 1 THEN frac_end ELSE int_end
         IN  <<Slice(s, pos, end)>> \o findall(s, end)

DigitValue ==
    [c \in Digit |-> CHOOSE n \in 0..9 :
        <<"0","1","2","3","4","5","6","7","8","9">>[n + 1] = c]

\* int() of a run of digits
RECURSIVE IntOf(_)
IntOf(digits) ==
    IF digits = <<>> THEN 0
    ELSE 10 * IntOf(SubSeq(digits, 1, Len(digits) - 1)) + DigitValue[digits[Len(digits)]]

\* float(num_str), in thousandths
float(num_str) ==
    LET int_end == DigitsEnd(num_str, 0)
        frac    == Slice(num_str, int_end + 1, int_end + 4)
    IN  1000 * IntOf(Slice(num_str, 0, int_end))
          + IntOf(frac \o [i \in 1..(3 - Len(frac)) |-> "0"])

\* the first entry of source_numbers from entry k on that is within tolerance
\* of num; 0 if there is none (narrator.py 149-153)
RECURSIVE FirstMatch(_, _, _)
FirstMatch(k, num, source) ==
    IF k > Len(source) THEN 0
    ELSE IF Abs(num - Abs(source[k].source_val)) < Tolerance THEN k
    ELSE FirstMatch(k + 1, num, source)

UNVERIFIED == "UNVERIFIED"

\* KeepUnmatched with >= in place of >
KeepUnmatchedFromOne(num) == num >= SmallNumber

\* the test of narrator.py 154 on an unmatched number
KeepUnmatched(num) == num > SmallNumber

\* the loop over numbers_in_text from token i on (narrator.py 145-157)
RECURSIVE CiteLoop(_, _, _, _)
CiteLoop(i, cited, numbers_in_text, source) ==
    IF i > Len(numbers_in_text) THEN cited
    ELSE LET num == float(numbers_in_text[i])
             k   == FirstMatch(1, num, source)
         IN  CiteLoop(i + 1,
                 IF k # 0
                 THEN Append(cited, [value |-> num, source_field |-> source[k].field_name,
                                     verified |-> TRUE])
                 ELSE IF KeepUnmatched(num)
                 THEN Append(cited, [value |-> num, source_field |-> UNVERIFIED,
                                     verified |-> FALSE])
                 ELSE cited,
                 numbers_in_text, source)

VerifiedCount(cited) == Cardinality({i \in 1..Len(cited) : cited[i].verified})

\* Confidence with the number of tokens as the denominator
ConfidenceOverTokens(cited, numbers_in_text) ==
    (1000 * VerifiedCount(cited)) \div Max(1, Len(numbers_in_text))

\* verified_count / total_count (narrator.py 160-162)
Confidence(cited, numbers_in_text) ==
    LET total_count == IF cited # <<>> THEN Len(cited) ELSE 1
    IN  (1000 * VerifiedCount(cited)) \div total_count

\* _fact_check_narrative that extends the numbers_cited of the narrative
_fact_check_narrative_extending(narrative, portfolio) ==
    LET numbers_in_text == findall(full_text(narrative), 0)
        cited == CiteLoop(1, narrative.numbers_cited, numbers_in_text,
                          source_numbers(portfolio))
    IN  [narrative EXCEPT
            !.numbers_cited = cited,
            !.confidence_score = Confidence(cited, numbers_in_text)]

_fact_check_narrative(narrative, portfolio) ==
    LET numbers_in_text == findall(full_text(narrative), 0)
        cited == CiteLoop(1, <<>>, numbers_in_text, source_numbers(portfolio))
    IN  [narrative EXCEPT
            !.numbers_cited = cited,
            !.confidence_score = Confidence(cited, numbers_in_text)]

(***************************************************************************)
(* rag.py: DocumentRAG._chunk_text.  The loop is modelled one iteration at *)
(* a time, so that a call that never returns is a behaviour too.           *)
(***************************************************************************)
\* s[lo:hi] for any integers lo and hi
PySlice(s, lo, hi) ==
    LET a == IF lo < 0 THEN Max(0, Len(s) + lo) ELSE Min(lo, Len(s))
        b == IF hi < 0 THEN Max(0, Len(s) + hi) ELSE Min(hi, Len(s))
    IN  IF a >= b THEN <<>> ELSE SubSeq(s, a + 1, b)

\* NextStart that advances by chunk_size alone
NextStartNoOverlap(start, chunk_size, chunk_overlap) == start + chunk_size

\* start += self.chunk_size - self.chunk_overlap
NextStart(start, chunk_size, chunk_overlap) == start + chunk_size - chunk_overlap

\* the dictionary appended in one iteration (rag.py 74-78)
ChunkOf(source, chunk_id, text, start, end) ==
    [id       |-> <<source, "_", chunk_id>>,
     text     |-> PySlice(text, start, end),
     metadata |-> [source |-> source, chunk_index |-> chunk_id, char_start |-> start]]

(***************************************************************************)
(* Inputs.  A text is "Our strategy <A><gap><B>." where A and B are        *)
(* phrases (possibly empty) and the gap is a blank followed by up to        *)
(* MaxGap copies of a 26-character filler; the empty text is a text too.    *)
(* With A = "guarantees", one filler and B = "risk-free" this is the text   *)
(* "Our strategy guarantees returns and is completely risk-free.".          *)
(***************************************************************************)
MaxGap == 2

MaxPrior == 3

MaxPasses == 2

Lead == <<"O","u","r"," ","s","t","r","a","t","e","g","y"," ">>

Filler == <<"r","e","t","u","r","n","s"," ","a","n","d"," ","i","s"," ","c","o","m","p","l","e","t","e","l","y"," ">>

EmptyPhrase == <<>>

Guarantees == <<"g","u","a","r","a","n","t","e","e","s">>

GuaranteedCap == <<"G","u","a","r","a","n","t","e","e","d">>

RiskFree == <<"r","i","s","k","-","f","r","e","e">>

Assured == <<"a","s","s","u","r","e","d">>

SsnDigits == <<"1","2","3","-","4","5","-","6","7","8","9">>

PerformanceClaim == <<"8",".","5","%"," ","a","n","n","u","a","l">>

Disclaimer == <<"p","a","s","t"," ","p","e","r","f","o","r","m","a","n","c","e">>

Superlatives == <<"G","r","e","a","t",","," ","b","e","s","t",","," ","t","o","p">>

Phrases == {EmptyPhrase, Guarantees, GuaranteedCap, RiskFree, Assured, SsnDigits,
            PerformanceClaim, Disclaimer, Superlatives}

RECURSIVE Gap(_)
Gap(k) == IF k = 0 THEN <<" ">> ELSE Gap(k - 1) \o Filler

Texts ==
    {<<>>} \cup
    {Lead \o A \o Gap(k) \o B \o <<".">> : A \in Phrases, B \in Phrases, k \in 0..MaxGap}

\* "Our strategy guarantees returns and is completely risk-free."
Example1 == Lead \o Guarantees \o Gap(1) \o RiskFree \o <<".">>

\* findings an upstream classifier may have put into the report it returns
LlmPromissory ==
    [violation_type |-> PROMISSORY_LANGUAGE,
     severity       |-> "high",
     description    |-> <<"Promissory claim">>,
     evidence       |-> GuaranteedCap,
     regulation     |-> "FINRA Rule 2210",
     suggested_fix  |-> <<"Remove the guarantee">>]

LlmPii ==
    [violation_type |-> PII_IN_EXTERNAL,
     severity       |-> "high",
     description    |-> <<"SSN in communication">>,
     evidence       |-> SsnDigits,
     regulation     |-> "Reg S-P",
     suggested_fix  |-> <<"Remove the SSN">>]

LlmUnbalanced ==
    [violation_type |-> UNBALANCED_PRESENTATION,
     severity       |-> "medium",
     description    |-> <<"Only upside mentioned">>,
     evidence       |-> Superlatives,
     regulation     |-> "FINRA Rule 2210(d)(1)(A)",
     suggested_fix  |-> <<"Mention the risks">>]

PriorFindings == <<LlmPromissory, LlmPii, LlmUnbalanced>>

\* the finding lists of the classifier: up to MaxPrior findings; the code
\* reads them with any(), sum() and len() only, so one order per bag is enough
PriorViolations ==
    {[i \in 1..Len(ix) |-> PriorFindings[ix[i]]] :
        ix \in {s \in UNION {[1..k -> 1..Len(PriorFindings)] : k \in 0..MaxPrior} :
                   \A i \in 1..(Len(s) - 1) : s[i] <= s[i + 1]}}

\* the overall_risk_score the classifier put into its report (0.35)
LlmRiskScore == 350

\* the confidence_score values a model may put into its response: the
\* fields are plain floats, so besides 0.0 and 0.9 a value such as 1.5
LlmConfidences == {0, 900, 1500}

\* a ComplianceReport as parsed from the classifier's response
ReportOf(decision, violations, warnings, disclosures, performance, recommendations, confidence) ==
    [decision                  |-> decision,
     overall_risk_score        |-> LlmRiskScore,
     confidence_score          |-> confidence,
     violations                |-> violations,
     warnings                  |-> warnings,
     required_disclosures      |-> disclosures,
     suggested_revisions       |-> <<"Drop the guarantee">>,
     communication_type        |-> "email",
     contains_performance_data |-> performance,
     contains_recommendations  |-> recommendations,
     contains_projections      |-> TRUE,
     applicable_rules          |-> <<"FINRA 2210", "SEC 206(4)">>]

\* reports of a classifier that found nothing: content flags only
FlagReports == {ReportOf(APPROVED, <<>>, <<>>, <<>>, p, TRUE, 900) : p \in BOOLEAN}

\* reports that differ in the classifier's confidence_score
ConfidenceReports ==
    {ReportOf(APPROVED, <<>>, <<>>, <<>>, FALSE, TRUE, c) : c \in LlmConfidences}

\* reports that carry findings, warnings and disclosures of the classifier
Reports ==
    {ReportOf(d, v, w, q, p, r, 900) :
        d \in ComplianceDecision,
        v \in PriorViolations,
        w \in {<<>>, <<"Tone is aggressive">>},
        q \in {<<>>, <<"Fees apply">>},
        p \in BOOLEAN,
        r \in BOOLEAN}

ClientContexts == {NoContext, [is_senior |-> FALSE], [is_senior |-> TRUE]}

\* texts the full reports are combined with: empty, clean, one promissory
\* token, an SSN
ProbeTexts ==
    {<<>>} \cup {Lead \o A \o <<" ", ".">> : A \in {EmptyPhrase, GuaranteedCap, SsnDigits}}

NoReport == [none |-> TRUE]

NoBody == [none |-> TRUE]

NoResponse == [none |-> TRUE]

\* a request body without a "text" key
BodyWithoutText == [draft |-> Lead]

\* dictionaries of the "portfolio" field: none to four of the fields the
\* narrative reads, in a fixed order
PortfolioFields ==
    << [key |-> "ytd_return_pct", value |-> 8500],
       [key |-> "volatility_pct", value |-> 14200],
       [key |-> "sharpe_ratio",   value |-> 900],
       [key |-> "total_value",    value |-> 250000000] >>

RECURSIVE Pick(_, _)
Pick(keep, k) ==
    IF k > Len(PortfolioFields) THEN <<>>
    ELSE (IF k \in keep THEN <<PortfolioFields[k]>> ELSE <<>>) \o Pick(keep, k + 1)

\* request bodies of demo_risk_narrative: no "portfolio" key, an empty
\* string, a broken and a well-formed JSON string, dictionaries
PortfolioBodies ==
    {BodyWithoutText}
    \cup {[portfolio |-> [str |-> s]] : s \in {<<>>, <<"{">>, VolatilityDocument}}
    \cup {[portfolio |-> [dict |-> Pick(keep, 1)]] : keep \in SUBSET (1..Len(PortfolioFields))}

(***************************************************************************)
(* Inputs of the meeting summarizer: a transcript is "Client said <A> <B>." *)
(* with A and B taken from strings that hold at most one kind of PII, and   *)
(* digit runs just outside the account-number lengths.                      *)
(***************************************************************************)
Intro == <<"C","l","i","e","n","t"," ","s","a","i","d"," ">>

AccountDigits == <<"1","2","3","4","5","6","7","8">>

LongAccountDigits == <<"1","2","3","4","5","6","7","8","9","0","1","2">>

\* nothing, an SSN, account numbers of 8 and 12 digits, runs of 7 and 13
\* digits, a phone number, an e-mail address, a dollar amount
PiiPhrases == {
    EmptyPhrase, SsnDigits, AccountDigits, LongAccountDigits,
    <<"1","2","3","4","5","6","7">>,
    <<"1","2","3","4","5","6","7","8","9","0","1","2","3">>,
    <<"5","5","5","-","1","2","3","-","4","5","6","7">>,
    <<"a","n","n","@","m","s",".","c","o","m">>,
    <<"$","1",",","5","0","0",".","0","0">> }

Transcripts == {Intro \o A \o <<" ">> \o B \o <<".">> : A \in PiiPhrases, B \in PiiPhrases}

\* flags the summarization model may have put into the summary it returns
LlmSuitability ==
    [flag        |-> SUITABILITY_CONCERN,
     description |-> "Product may not suit the client",
     severity    |-> "medium",
     evidence    |-> <<"Client said">>]

LlmPiiFlag ==
    [flag        |-> PII_EXPOSED,
     description |-> "Client read out an SSN",
     severity    |-> "high",
     evidence    |-> <<"PII", SsnDigits>>]

\* a MeetingSummary as parsed from the model's response
SummaryOf(flags, pii, confidence) ==
    [compliance_flags |-> flags,
     pii_detected     |-> pii,
     confidence_score |-> confidence]

Summaries ==
    {SummaryOf(f, p, c) :
        f \in {<<>>, <<LlmSuitability>>, <<LlmPiiFlag>>},
        p \in {<<>>, <<"names">>},
        c \in LlmConfidences}

\* texts with an account number for the compliance checker
AccountTexts ==
    {Lead \o AccountDigits \o <<" ", ".">>,
     Lead \o LongAccountDigits \o <<" ">> \o SsnDigits \o <<".">>}

TwoSuperlatives == <<"G","r","e","a","t",","," ","b","e","s","t">>

\* texts for the balance rule: two positive words, a third inside a longer
\* word, three with a risk word, three with a risk word inside a longer word
BalanceTexts ==
    {TwoSuperlatives \o <<".">>,
     TwoSuperlatives \o <<","," ","t","o","p","m","o","s","t",".">>,
     Superlatives \o <<" ","l","o","s","s",".">>,
     Superlatives \o <<" ","l","o","s","s","l","e","s","s",".">>}

NoSummary == [none |-> TRUE]

(***************************************************************************)
(* Inputs of the risk narrator: portfolios that differ in three fields      *)
(* (mtd_return_pct equal to sharpe_ratio or not, beta closer to a cited     *)
(* 1.155 than sharpe_ratio or not, fixed_income_pct zero or not) and        *)
(* narratives whose sections are taken from a few sentences.                *)
(***************************************************************************)
PortfolioOf(mtd_return_pct, beta, fixed_income_pct) ==
    [total_value         |-> 250000000,
     mtd_return_pct      |-> mtd_return_pct,
     qtd_return_pct      |-> 3400,
     ytd_return_pct      |-> 8500,
     one_year_return_pct |-> 11000,
     benchmark_ytd_pct   |-> 7000,
     volatility_pct      |-> 14200,
     sharpe_ratio        |-> 1150,
     max_drawdown_pct    |-> -12300,
     beta                |-> beta,
     var_95_pct          |-> 3200,
     cvar_95_pct         |-> 4100,
     equity_pct          |-> 60000,
     fixed_income_pct    |-> fixed_income_pct,
     alternatives_pct    |-> 5000,
     cash_pct            |-> 5000,
     top_holding_pct     |-> 7000]

Portfolios ==
    {PortfolioOf(m, b, f) : m \in {1150, 2100}, b \in {900, 1155}, f \in {0, 30000}}

\* "Portfolio volatility was 14.2% with a Sharpe ratio of 1.15."
VolatilitySentence ==
    <<"P","o","r","t","f","o","l","i","o"," ","v","o","l","a","t","i","l","i","t","y"," ","w","a","s"," ","1","4",".","2","%"," ","w","i","t","h"," ","a"," ","S","h","a","r","p","e"," ","r","a","t","i","o"," ","o","f"," ","1",".","1","5",".">>

\* "", the sentence above, "CVaR was 4.1% and cash 5%.",
\* "Drawdown -12.3% in Q3, beta 0.9, odds 0.5 to 1, 0 fees."
ExecutiveSummaries == {
    <<>>,
    VolatilitySentence,
    <<"C","V","a","R"," ","w","a","s"," ","4",".","1","%"," ","a","n","d"," ","c","a","s","h"," ","5","%",".">>,
    <<"D","r","a","w","d","o","w","n"," ","-","1","2",".","3","%"," ","i","n"," ","Q","3",","," ","b","e","t","a"," ","0",".","9",","," ","o","d","d","s"," ","0",".","5"," ","t","o"," ","1",","," ","0"," ","f","e","e","s",".">> }

\* "", "Value 250000.0, ratio 1.155.", "Benchmark 7% over 1 year."
PerformanceCommentaries == {
    <<>>,
    <<"V","a","l","u","e"," ","2","5","0","0","0","0",".","0",","," ","r","a","t","i","o"," ","1",".","1","5","5",".">>,
    <<"B","e","n","c","h","m","a","r","k"," ","7","%"," ","o","v","e","r"," ","1"," ","y","e","a","r",".">> }

\* "", "VaR 3.2.", "Range 14.2.5 of 1,250."
RiskAssessments == {
    <<>>,
    <<"V","a","R"," ","3",".","2",".">>,
    <<"R","a","n","g","e"," ","1","4",".","2",".","5"," ","o","f"," ","1",",","2","5","0",".">> }

\* "", "Cash 5.0%."
AllocationCommentaries == {
    <<>>,
    <<"C","a","s","h"," ","5",".","0","%",".">> }

\* numbers_cited and confidence_score as the generating model may fill them
LlmCited == <<[value |-> 99900, source_field |-> "beta", verified |-> TRUE]>>

\* a RiskNarrative as parsed from the model's response
Narratives ==
    {[executive_summary      |-> e,
      performance_commentary |-> p,
      risk_assessment        |-> r,
      allocation_commentary  |-> a,
      numbers_cited          |-> c[1],
      confidence_score       |-> c[2]] :
        e \in ExecutiveSummaries, p \in PerformanceCommentaries, r \in RiskAssessments,
        a \in AllocationCommentaries, c \in {<< <<>>, 0 >>, <<LlmCited, 900>>}}

NoNarrative == [none |-> TRUE]

NoPortfolio == [none |-> TRUE]

(***************************************************************************)
(* Concurrent requests on one event loop.  check_compliance and            *)
(* generate_risk_narrative suspend once, at the await of the model call;    *)
(* what follows the await runs without suspension.  demo_compliance_check   *)
(* has no await.  A request is its coroutine frame: the arguments, the      *)
(* object the awaited call delivers, and the value returned.                *)
(***************************************************************************)
MaxRequests == 2

NoResult == [none |-> TRUE]

CheckRequest(text_arg, reply) ==
    [kind |-> "check", pc |-> "start",
     args |-> [communication_text |-> text_arg, client_context |-> [is_senior |-> TRUE]],
     reply |-> reply, result |-> NoResult]

NarrateRequest(reply) ==
    [kind |-> "narrate", pc |-> "start",
     args |-> [portfolio |-> PortfolioOf(2100, 900, 30000)],
     reply |-> reply, result |-> NoResult]

DemoRequest(body_arg) ==
    [kind |-> "demo", pc |-> "start", args |-> [body |-> body_arg],
     reply |-> NoReport, result |-> NoResult]

\* the requests that may be in flight together
AsyncRequests ==
    {CheckRequest(Example1, ReportOf(APPROVED, <<>>, <<>>, <<>>, TRUE, TRUE, 900)),
     CheckRequest(Lead \o SsnDigits \o <<" ", ".">>,
                  ReportOf(REQUIRES_CHANGES, <<LlmPii>>, <<>>, <<>>, FALSE, FALSE, 900)),
     CheckRequest(Example1, NoReport)}
    \cup {NarrateRequest(n) :
            n \in {m \in Narratives : /\ m.executive_summary # <<>>
                                      /\ m.performance_commentary = <<>>
                                      /\ m.risk_assessment = <<>>
                                      /\ m.allocation_commentary = <<>>
                                      /\ m.numbers_cited = <<>>}}
    \cup {DemoRequest([text |-> Example1]), DemoRequest(BodyWithoutText)}

\* raise ValueError("LLM returned no parsed output")
NoParsedOutput == [error |-> "LLM returned no parsed output"]

\* FrameOf that reads the frame of the request called last, as a variable
\* shared by the coroutines would hold it
FrameOfLatestCall(reqs, i) ==
    LET called == {j \in DOMAIN reqs : reqs[j].pc # "start"}
    IN  IF called = {} THEN reqs[i]
        ELSE reqs[CHOOSE j \in called : \A k \in called : k <= j]

\* the locals of the coroutine of request i
FrameOf(reqs, i) == reqs[i]

\* what the coroutine with this frame returns once its await has returned
Run(frame) ==
    CASE frame.kind = "check" ->
            IF frame.reply = NoReport THEN NoParsedOutput
            ELSE _rule_based_checks(frame.reply, frame.args.communication_text,
                                    frame.args.client_context)
      [] frame.kind = "narrate" ->
            IF frame.reply = NoNarrative THEN NoParsedOutput
            ELSE _fact_check_narrative(frame.reply, frame.args.portfolio)
      [] OTHER -> demo_compliance_check(frame.args.body)

(***************************************************************************)
(* The state machine: one request, to check_compliance (whose classifier    *)
(* call has returned `report`), to the demo endpoint, to summarize_meeting  *)
(* (whose model call has returned `summary`) or to generate_risk_narrative  *)
(* (whose model call has returned `narrative`).                             *)
(***************************************************************************)
VARIABLES
    endpoint,        \* the entry point of the request: "check", "demo", "narrate", ...
    text,            \* communication_text of check_compliance
    client_context,  \* client_context of check_compliance
    report,          \* the ComplianceReport object; _rule_based_checks updates it in place
    incoming,        \* the report (summary, narrative) as the model call returned it
    passes,          \* what the successive calls of the post-processing step returned
    body,            \* the request body of demo_compliance_check
    response,        \* what demo_compliance_check returned
    transcript,      \* transcript of summarize_meeting
    summary,         \* the MeetingSummary object; _detect_pii updates it in place
    portfolio,       \* portfolio of generate_risk_narrative
    narrative,       \* the RiskNarrative object; _fact_check_narrative updates it in place
    requests,        \* the coroutine frames of the requests in flight together
    rag,             \* the DocumentRAG object: chunk_size and chunk_overlap
    chunker          \* the frame of a call of _chunk_text

single_request_vars ==
    <<endpoint, text, client_context, report, incoming, passes, body, response,
      transcript, summary, portfolio, narrative>>

chunk_vars == <<rag, chunker>>

vars == <<single_request_vars, requests, chunk_vars>>

NoRag == [none |-> TRUE]

NoChunker == [none |-> TRUE]

InitCheck ==
    /\ endpoint = "check"
    /\ \/ text \in Texts \cup AccountTexts /\ report \in FlagReports
       \/ text \in ProbeTexts /\ report \in Reports \cup ConfidenceReports
    /\ client_context \in ClientContexts
    /\ incoming = report
    /\ passes = <<>>
    /\ body = NoBody
    /\ response = NoResponse
    /\ transcript = <<>>
    /\ summary = NoSummary
    /\ portfolio = NoPortfolio
    /\ narrative = NoNarrative
    /\ requests = <<>>
    /\ rag = NoRag
    /\ chunker = NoChunker

InitDemo ==
    /\ endpoint = "demo"
    /\ body \in {[text |-> t] : t \in Texts \cup AccountTexts \cup BalanceTexts}
              \cup {BodyWithoutText}
    /\ response = NoResponse
    /\ text = <<>>
    /\ client_context = NoContext
    /\ report = NoReport
    /\ incoming = NoReport
    /\ passes = <<>>
    /\ transcript = <<>>
    /\ summary = NoSummary
    /\ portfolio = NoPortfolio
    /\ narrative = NoNarrative
    /\ requests = <<>>
    /\ rag = NoRag
    /\ chunker = NoChunker

InitSummarize ==
    /\ endpoint = "summarize"
    /\ transcript \in Transcripts
    /\ summary \in Summaries
    /\ incoming = summary
    /\ passes = <<>>
    /\ text = <<>>
    /\ client_context = NoContext
    /\ report = NoReport
    /\ body = NoBody
    /\ response = NoResponse
    /\ portfolio = NoPortfolio
    /\ narrative = NoNarrative
    /\ requests = <<>>
    /\ rag = NoRag
    /\ chunker = NoChunker

InitNarrate ==
    /\ endpoint = "narrate"
    /\ portfolio \in Portfolios
    /\ narrative \in Narratives
    /\ incoming = narrative
    /\ passes = <<>>
    /\ text = <<>>
    /\ client_context = NoContext
    /\ report = NoReport
    /\ body = NoBody
    /\ response = NoResponse
    /\ transcript = <<>>
    /\ summary = NoSummary
    /\ requests = <<>>
    /\ rag = NoRag
    /\ chunker = NoChunker

InitNarrativeDemo ==
    /\ endpoint = "narrative_demo"
    /\ body \in PortfolioBodies
    /\ response = NoResponse
    /\ text = <<>>
    /\ client_context = NoContext
    /\ report = NoReport
    /\ incoming = NoReport
    /\ passes = <<>>
    /\ transcript = <<>>
    /\ summary = NoSummary
    /\ portfolio = NoPortfolio
    /\ narrative = NoNarrative
    /\ requests = <<>>
    /\ rag = NoRag
    /\ chunker = NoChunker

Init == InitCheck \/ InitDemo \/ InitNarrativeDemo \/ InitSummarize \/ InitNarrate

\* check_compliance line 137, and a rerun of the step on its own output
RuleBasedChecks ==
    /\ endpoint = "check"
    /\ Len(passes) < MaxPasses
    /\ report' = _rule_based_checks(report, text, client_context)
    /\ passes' = Append(passes, report')
    /\ UNCHANGED <<endpoint, text, client_context, incoming, body, response,
                   transcript, summary, portfolio, narrative, requests, chunk_vars>>

DemoComplianceCheck ==
    /\ endpoint = "demo"
    /\ response = NoResponse
    /\ response' = demo_compliance_check(body)
    /\ UNCHANGED <<endpoint, text, client_context, report, incoming, passes, body,
                   transcript, summary, portfolio, narrative, requests, chunk_vars>>

DemoRiskNarrative ==
    /\ endpoint = "narrative_demo"
    /\ response = NoResponse
    /\ response' = demo_risk_narrative(body)
    /\ UNCHANGED <<endpoint, text, client_context, report, incoming, passes, body,
                   transcript, summary, portfolio, narrative, requests, chunk_vars>>

\* summarize_meeting line 129, and a rerun of the step on its own output
DetectPii ==
    /\ endpoint = "summarize"
    /\ Len(passes) < MaxPasses
    /\ summary' = _detect_pii(summary, transcript)
    /\ passes' = Append(passes, summary')
    /\ UNCHANGED <<endpoint, text, client_context, report, incoming, body, response,
                   transcript, portfolio, narrative, requests, chunk_vars>>

\* generate_risk_narrative line 108, and a rerun of the step on its own output
FactCheckNarrative ==
    /\ endpoint = "narrate"
    /\ Len(passes) < MaxPasses
    /\ narrative' = _fact_check_narrative(narrative, portfolio)
    /\ passes' = Append(passes, narrative')
    /\ UNCHANGED <<endpoint, text, client_context, report, incoming, body, response,
                   transcript, summary, portfolio, requests, chunk_vars>>

Next ==
    \/ RuleBasedChecks
    \/ DemoComplianceCheck
    \/ DemoRiskNarrative
    \/ DetectPii
    \/ FactCheckNarrative

Spec == Init /\ [][Next]_vars

(***************************************************************************)
(* The state machine of concurrent requests                                *)
(***************************************************************************)
InitAsync ==
    /\ endpoint = "async"
    /\ requests \in [1..MaxRequests -> AsyncRequests]
    /\ rag = NoRag
    /\ chunker = NoChunker
    /\ text = <<>>
    /\ client_context = NoContext
    /\ report = NoReport
    /\ incoming = NoReport
    /\ passes = <<>>
    /\ body = NoBody
    /\ response = NoResponse
    /\ transcript = <<>>
    /\ summary = NoSummary
    /\ portfolio = NoPortfolio
    /\ narrative = NoNarrative

\* check_compliance 122, generate_risk_narrative 93: the coroutine suspends
Call(i) ==
    /\ requests[i].kind \in {"check", "narrate"}
    /\ requests[i].pc = "start"
    /\ requests' = [requests EXCEPT ![i].pc = "awaiting"]
    /\ UNCHANGED <<single_request_vars, chunk_vars>>

\* the await returns; the rest of the coroutine runs to its return
Resume(i) ==
    /\ requests[i].pc = "awaiting"
    /\ requests' = [requests EXCEPT ![i].pc = "done",
                                    ![i].result = Run(FrameOf(requests, i))]
    /\ UNCHANGED <<single_request_vars, chunk_vars>>

\* demo_compliance_check runs from call to return
Handle(i) ==
    /\ requests[i].kind = "demo"
    /\ requests[i].pc = "start"
    /\ requests' = [requests EXCEPT ![i].pc = "done",
                                    ![i].result = Run(FrameOf(requests, i))]
    /\ UNCHANGED <<single_request_vars, chunk_vars>>

NextAsync == \E i \in 1..MaxRequests : Call(i) \/ Resume(i) \/ Handle(i)

SpecAsync == InitAsync /\ [][NextAsync]_vars

(***************************************************************************)
(* The state machine of one call of _chunk_text                            *)
(***************************************************************************)
MaxTextLen == 6

MaxChunkSize == 3

\* iterations of the loop that are followed; a call that returns needs at
\* most one per character
MaxChunks == MaxTextLen + 1

\* a document of n characters, no two neighbours alike
DocumentText(n) == [i \in 1..n |-> LowerCase[((i - 1) % 26) + 1]]

\* DocumentRAG(chunk_size=s, chunk_overlap=o)
Rags == {[chunk_size |-> s, chunk_overlap |-> o] : s \in -1..MaxChunkSize, o \in -1..MaxChunkSize}

InitChunk ==
    /\ endpoint = "chunk"
    /\ rag \in Rags
    /\ chunker \in {[text |-> DocumentText(n), source |-> "doc", chunks |-> <<>>,
                     start |-> 0, chunk_id |-> 0, pc |-> "while"] : n \in 0..MaxTextLen}
    /\ text = <<>>
    /\ client_context = NoContext
    /\ report = NoReport
    /\ incoming = NoReport
    /\ passes = <<>>
    /\ body = NoBody
    /\ response = NoResponse
    /\ transcript = <<>>
    /\ summary = NoSummary
    /\ portfolio = NoPortfolio
    /\ narrative = NoNarrative
    /\ requests = <<>>

\* one iteration of the while loop (rag.py 71-80)
ChunkIteration ==
    /\ endpoint = "chunk"
    /\ chunker.pc = "while"
    /\ chunker.start < Len(chunker.text)
    /\ chunker.chunk_id < MaxChunks
    /\ LET end == Min(chunker.start + rag.chunk_size, Len(chunker.text))
       IN  chunker' = [chunker EXCEPT
               !.chunks = Append(@, ChunkOf(chunker.source, chunker.chunk_id,
                                            chunker.text, chunker.start, end)),
               !.start = NextStart(@, rag.chunk_size, rag.chunk_overlap),
               !.chunk_id = @ + 1]
    /\ UNCHANGED <<single_request_vars, requests, rag>>

\* the loop condition fails: return chunks (rag.py 81)
ChunkReturn ==
    /\ endpoint = "chunk"
    /\ chunker.pc = "while"
    /\ ~(chunker.start < Len(chunker.text))
    /\ chunker' = [chunker EXCEPT !.pc = "returned"]
    /\ UNCHANGED <<single_request_vars, requests, rag>>

NextChunk == ChunkIteration \/ ChunkReturn

\* the loop runs in one thread with nothing to wait for: an iteration that
\* can be taken is taken
SpecChunk == InitChunk /\ [][NextChunk]_vars /\ WF_vars(NextChunk)

(***************************************************************************)
(* Properties                                                              *)
(***************************************************************************)
\* _rule_based_checks has returned (the first time)
Checked == endpoint = "check" /\ passes # <<>>

\* demo_compliance_check has returned a decision
Decided == endpoint = "demo" /\ response # NoResponse /\ "decision" \in DOMAIN response

\* the report returned by the call inside check_compliance
First == passes[1]

DemoText == body_get_text(body)

\* C1: on both paths, a final finding list with at least two findings of
\* severity high gives the decision rejected, whatever the number of findings,
\* the warnings and the decision of the incoming report.
C1_TwoHighRejected ==
    /\ Checked /\ HighCount(First.violations) >= 2 => First.decision = REJECTED
    /\ Decided /\ HighCount(response.violations) >= 2 => response.decision = "rejected"

C1_Witness ==
    /\ Checked
    /\ HighCount(First.violations) = 2
    /\ Len(First.violations) >= 4
    /\ First.warnings # <<>>
    /\ incoming.decision = APPROVED

\* C2: with no high finding and fewer findings than the variant's threshold,
\* warnings without findings, or a single non-high finding, give
\* requires_changes on both paths, whatever decision the report held before.
C2_ResidualRequiresChanges ==
    /\ Checked /\ HighCount(First.violations) = 0
          /\ \/ Len(First.violations) = 0 /\ First.warnings # <<>>
             \/ Len(First.violations) = 1
       => First.decision = REQUIRES_CHANGES
    /\ Decided /\ HighCount(response.violations) = 0 /\ Len(response.violations) = 1
       => response.decision = "requires_changes"

\* no rule of _rule_based_checks fires on the request
NoCheckerRuleFires ==
    /\ \A k \in 1..Len(promissory_patterns) :
           re_search(promissory_patterns[k], Lower(text)) = NoMatch
    /\ re_search(ssn_pattern, text) = NoMatch
    /\ ~(incoming.contains_performance_data /\ ~any_disclaimer(Lower(text)))

\* no rule of demo_compliance_check fires on the request
NoDemoRuleFires ==
    /\ \A k \in 1..Len(demo_patterns) :
           re_search(demo_patterns[k].pattern, Lower(DemoText)) = NoMatch
    /\ re_search(ssn_pattern, DemoText) = NoMatch
    /\ ~(has_performance_match(Lower(DemoText)) /\ ~any_disclaimer(Lower(DemoText)))
    /\ ~(CountWords(PositiveWords, Lower(DemoText)) >= 3
            /\ CountWords(RiskWords, Lower(DemoText)) = 0)

\* C3 as stated: a text that triggers no rule, with no findings and no
\* warnings, is approved with risk score 0.0 and empty required_disclosures.
C3_CleanApprovedNoDisclosures ==
    /\ Checked /\ NoCheckerRuleFires /\ First.violations = <<>> /\ First.warnings = <<>>
       => /\ First.decision = APPROVED
          /\ First.overall_risk_score = 0
          /\ First.required_disclosures = <<>>
    /\ Decided /\ NoDemoRuleFires
       => /\ response.decision = "approved"
          /\ response.risk_score = 0
          /\ response.required_disclosures = <<>>

\* C3 amended: such a text is approved with risk score 0.0 and no disclosure
\* added by the rules: required_disclosures is empty on the main.py path and
\* is the incoming report's list on the checker.py path.
C3_CleanApproved ==
    /\ Checked /\ NoCheckerRuleFires /\ First.violations = <<>> /\ First.warnings = <<>>
       => /\ First.decision = APPROVED
          /\ First.overall_risk_score = 0
          /\ First.required_disclosures = incoming.required_disclosures
    /\ Decided /\ NoDemoRuleFires
       => /\ response.decision = "approved"
          /\ response.risk_score = 0
          /\ response.violations = <<>>
          /\ response.required_disclosures = <<>>

C3_Witness ==
    /\ Checked /\ NoCheckerRuleFires /\ First.violations = <<>> /\ First.warnings = <<>>
    /\ incoming.decision = REJECTED
    /\ incoming.required_disclosures # <<>>

\* C4: the risk score written by the aggregation step is
\* min(1.0, 0.2 * findings + 0.3 * high findings) over the final list, on both
\* paths, external and rule-detected findings counted alike.
C4_RiskScoreFormula ==
    /\ Checked
       => First.overall_risk_score =
             Min(1000, 200 * Len(First.violations) + 300 * HighCount(First.violations))
    /\ Decided
       => response.risk_score =
             Min(1000, 200 * Len(response.violations)
                         + 300 * HighCount(response.violations))

C4_Witness ==
    /\ Checked
    /\ Len(incoming.violations) = 1
    /\ Len(First.violations) = 2
    /\ First.overall_risk_score = 700

Severities == {"high", "medium", "low"}

\* C5: the risk score never decreases when a finding of any severity is
\* added to a finding list, and lies in [0.0, 1.0].
C5_RiskMonotoneBounded ==
    /\ endpoint = "check" =>
       \A i \in 1..Len(passes) :
          LET n == Len(passes[i].violations)
              h == HighCount(passes[i].violations)
          IN  /\ passes[i].overall_risk_score \in 0..1000
              /\ \A sev \in Severities :
                    RiskScore(n + 1, IF sev = "high" THEN h + 1 ELSE h)
                        >= passes[i].overall_risk_score
              /\ \A j \in 1..(i - 1) :
                    passes[j].overall_risk_score <= passes[i].overall_risk_score
    /\ Decided
       => LET n == Len(response.violations)
              h == HighCount(response.violations)
          IN  /\ response.risk_score \in 0..1000
              /\ \A sev \in Severities :
                    Round2(RiskScore(n + 1, IF sev = "high" THEN h + 1 ELSE h))
                        >= response.risk_score

C5_Witness ==
    /\ endpoint = "check"
    /\ Len(passes) = 2
    /\ Len(passes[2].violations) > Len(passes[1].violations)
    /\ passes[1].overall_risk_score = 500
    /\ passes[2].overall_risk_score = 1000

\* C6 as stated: _rule_based_checks applied to the report it returned, with
\* the same text and client context, returns an equal report.
C6_Idempotent == endpoint = "check" /\ Len(passes) >= 2 => passes[2] = passes[1]

\* indices of the findings the rules of _rule_based_checks appended
Appended == (Len(incoming.violations) + 1)..Len(First.violations)

\* the text a rule-based finding of _rule_based_checks was appended for
MatchedText(v) ==
    IF v.violation_type = PROMISSORY_LANGUAGE
    THEN v.description[2]
    ELSE Group(text, re_search(ssn_pattern, text))

\* the text a finding of demo_compliance_check was appended for
DemoMatchedText(v) ==
    IF v.type = "promissory_language"
    THEN LET k == CHOOSE k \in 1..Len(demo_patterns) :
                      demo_patterns[k].word = v.description[2]
         IN  Group(Lower(DemoText), re_search(demo_patterns[k].pattern, Lower(DemoText)))
    ELSE Group(DemoText, re_search(ssn_pattern, DemoText))

\* C7 as stated: a promissory or SSN finding is appended only if no existing
\* finding of the same type (those of the incoming report included) contains
\* the matched text, case-insensitively.
C7_NoDuplicateFinding ==
    /\ Checked
       => \A j \in Appended : \A i \in 1..(j - 1) :
             ~ /\ First.violations[i].violation_type = First.violations[j].violation_type
               /\ Contains(Lower(First.violations[i].evidence),
                           Lower(MatchedText(First.violations[j])))
    /\ Decided
       => \A j \in 1..Len(response.violations) : \A i \in 1..(j - 1) :
             ~ /\ response.violations[j].type \in {"promissory_language", "pii_in_external"}
               /\ response.violations[i].type = response.violations[j].type
               /\ Contains(Lower(response.violations[i].evidence),
                           Lower(DemoMatchedText(response.violations[j])))

TokensOf(pat, s) ==
    {Slice(s, p, MatchEnd(pat, 1, s, p)) : p \in MatchStarts(pat, s)}

CheckerTokens ==
    UNION {TokensOf(promissory_patterns[k], Lower(text)) :
              k \in 1..Len(promissory_patterns)}

DemoTokens ==
    UNION {TokensOf(demo_patterns[k].pattern, Lower(DemoText)) :
              k \in 1..Len(demo_patterns)}

\* indices of the promissory findings of the two results
Promissory == {j \in 1..Len(First.violations) :
                  First.violations[j].violation_type = PROMISSORY_LANGUAGE}

DemoPromissory == {j \in 1..Len(response.violations) :
                      response.violations[j].type = "promissory_language"}

\* C9 as stated: with no prior findings, each promissory token of the text,
\* in any casing, is contained in the evidence of exactly one
\* promissory_language finding, also when the text holds several tokens.
C9_OneFindingPerToken ==
    /\ Checked /\ incoming.violations = <<>>
       => \A tok \in CheckerTokens :
             Cardinality({j \in Promissory :
                 Contains(Lower(First.violations[j].evidence), tok)}) = 1
    /\ Decided
       => \A tok \in DemoTokens :
             Cardinality({j \in DemoPromissory :
                 Contains(Lower(response.violations[j].evidence), tok)}) = 1

\* the patterns that match the text
Matching == {k \in 1..Len(promissory_patterns) :
                re_search(promissory_patterns[k], Lower(text)) # NoMatch}

DemoMatching == {k \in 1..Len(demo_patterns) :
                    re_search(demo_patterns[k].pattern, Lower(DemoText)) # NoMatch}

\* the token pattern k matches first
FirstToken(k) == Group(Lower(text), re_search(promissory_patterns[k], Lower(text)))

DemoFirstToken(k) ==
    Group(Lower(DemoText), re_search(demo_patterns[k].pattern, Lower(DemoText)))

\* C9 amended: with no prior findings, a text that holds a promissory token,
\* in any casing, gets at least one promissory_language finding and at most
\* one per pattern (main.py: exactly one per matching pattern), and the first
\* token of every matching pattern is contained in the evidence of a
\* promissory finding; a text with one token gets exactly one finding.
C9_FindingPerPattern ==
    /\ Checked /\ incoming.violations = <<>>
       => /\ Matching # {} => Promissory # {}
          /\ Cardinality(Promissory) <= Cardinality(Matching)
          /\ \A k \in Matching : \E j \in Promissory :
                Contains(Lower(First.violations[j].evidence), FirstToken(k))
    /\ Decided
       => /\ Cardinality(DemoPromissory) = Cardinality(DemoMatching)
          /\ \A k \in DemoMatching : \E j \in DemoPromissory :
                /\ response.violations[j].description[2] = demo_patterns[k].word
                /\ Contains(Lower(response.violations[j].evidence), DemoFirstToken(k))

C9_Witness ==
    /\ Checked /\ incoming.violations = <<>>
    /\ Cardinality(Matching) = 2
    /\ Cardinality(Promissory) = 1
    /\ Contains(text, GuaranteedCap)

\* C10 as stated: with no other input findings, a text with two promissory
\* tokens matched by different patterns gets a high-severity
\* promissory_language finding for each, the decision rejected and the risk
\* score 1.0.
C10_TwoTokensRejected ==
    /\ Checked /\ incoming.violations = <<>> /\ Cardinality(Matching) >= 2
       => /\ Cardinality(Promissory) = Cardinality(Matching)
          /\ First.decision = REJECTED
          /\ First.overall_risk_score = 1000
    /\ Decided /\ Cardinality(DemoMatching) >= 2
       => /\ Cardinality(DemoPromissory) = Cardinality(DemoMatching)
          /\ response.decision = "rejected"
          /\ response.risk_score = 1000

\* the evidence window _rule_based_checks cuts around the first match of
\* pattern k, lower-cased
WindowOf(k) ==
    LET match == re_search(promissory_patterns[k], Lower(text))
    IN  Lower(Slice(text, Max(0, match.start - CheckerWindow), match.end + CheckerWindow))

\* the token of pattern k lies in the evidence window of an earlier pattern
Covered(k) == \E j \in Matching : j < k /\ Contains(WindowOf(j), FirstToken(k))

\* C10 amended: on the main.py path such a text gets a high-severity finding
\* per matching pattern, the decision rejected and the risk score 1.0.  On the
\* checker.py path (no input findings) it does so when the token of a later
\* pattern lies outside the 20-character evidence windows of the earlier
\* ones, as in the example; a second token inside the window of the first
\* is not reported, and without an SSN the result is then one finding,
\* requires_changes and the risk score 0.5.
C10_TwoTokensApart ==
    /\ Checked /\ incoming.violations = <<>>
       => /\ (\E k \in Matching : (\E j \in Matching : j < k) /\ ~Covered(k))
             => /\ Cardinality(Promissory) >= 2
                /\ \A j \in Promissory : First.violations[j].severity = "high"
                /\ First.decision = REJECTED
                /\ First.overall_risk_score = 1000
          /\ Cardinality(Matching) = 2 /\ (\A k \in Matching : \A j \in Matching :
                    j < k => Covered(k))
                /\ re_search(ssn_pattern, text) = NoMatch
             => /\ Cardinality(Promissory) = 1
                /\ First.decision = REQUIRES_CHANGES
                /\ First.overall_risk_score = 500
    /\ Decided /\ Cardinality(DemoMatching) >= 2
       => /\ Cardinality(DemoPromissory) = Cardinality(DemoMatching)
          /\ \A j \in DemoPromissory : response.violations[j].severity = "high"
          /\ response.decision = "rejected"
          /\ response.risk_score = 1000

C10_Witness ==
    /\ Checked
    /\ text = Example1
    /\ incoming.violations = <<>>
    /\ Cardinality(Promissory) = 2
    /\ First.decision = REJECTED
    /\ First.overall_risk_score = 1000

\* the only rule of _rule_based_checks that matches the text is the SSN rule
SsnOnly ==
    /\ re_search(ssn_pattern, text) # NoMatch
    /\ \A k \in 1..Len(promissory_patterns) :
           re_search(promissory_patterns[k], Lower(text)) = NoMatch
    /\ ~(incoming.contains_performance_data /\ ~any_disclaimer(Lower(text)))

\* the only rule of demo_compliance_check that matches the text is the SSN rule
DemoSsnOnly ==
    /\ re_search(ssn_pattern, DemoText) # NoMatch
    /\ \A k \in 1..Len(demo_patterns) :
           re_search(demo_patterns[k].pattern, Lower(DemoText)) = NoMatch
    /\ ~(has_performance_match(Lower(DemoText)) /\ ~any_disclaimer(Lower(DemoText)))
    /\ ~(CountWords(PositiveWords, Lower(DemoText)) >= 3
            /\ CountWords(RiskWords, Lower(DemoText)) = 0)

\* indices of the high-severity PII findings with the redacted evidence
RedactedPii ==
    {j \in 1..Len(First.violations) :
        /\ First.violations[j].violation_type = PII_IN_EXTERNAL
        /\ First.violations[j].severity = "high"
        /\ First.violations[j].evidence = SSN_REDACTED}

\* C11: for a text whose only rule match is an SSN, the findings include one
\* high-severity PII finding with evidence "[SSN REDACTED]", the number of
\* high findings is 1 and the decision is requires_changes, on both paths;
\* also when the incoming report already flags that SSN as a PII finding.
C11_SsnOnlyRequiresChanges ==
    /\ Checked /\ SsnOnly /\ incoming.violations \in {<<>>, <<LlmPii>>}
       => /\ Cardinality(RedactedPii) = 1
          /\ HighCount(First.violations) = 1
          /\ First.decision = REQUIRES_CHANGES
    /\ Decided /\ DemoSsnOnly
       => /\ Cardinality({j \in 1..Len(response.violations) :
                 /\ response.violations[j].type = "pii_in_external"
                 /\ response.violations[j].severity = "high"
                 /\ response.violations[j].evidence = SSN_REDACTED}) = 1
          /\ HighCount(response.violations) = 1
          /\ response.decision = "requires_changes"

\* _detect_pii has returned (the first time)
Summarized == endpoint = "summarize" /\ passes # <<>>

\* the string holds an SSN, an account number (the patterns of _detect_pii)
HasSsn(s) == found(patterns[1].pattern, s)

HasAccountNumber(s) == found(patterns[2].pattern, s)

\* the flags _detect_pii appended
AppendedFlags == (Len(incoming.compliance_flags) + 1)..Len(First.compliance_flags)

\* _detect_pii appends one high-severity PII_EXPOSED flag when the transcript
\* holds an SSN or an account number
PiiExposedFlagged ==
    Summarized /\ (HasSsn(transcript) \/ HasAccountNumber(transcript))
    => /\ Cardinality(AppendedFlags) = 1
       /\ \A j \in AppendedFlags :
             /\ First.compliance_flags[j].flag = PII_EXPOSED
             /\ First.compliance_flags[j].severity = "high"

\* C12: whenever an SSN or an account number is present, a high-severity PII
\* finding is raised: _detect_pii appends a PII_EXPOSED flag of severity high,
\* and _rule_based_checks and demo_compliance_check append a high-severity
\* PII finding, for account numbers as well as for SSNs.
C12_SensitivePiiRaised ==
    /\ PiiExposedFlagged
    /\ Checked /\ (HasSsn(text) \/ HasAccountNumber(text))
       => \E j \in Appended :
             /\ First.violations[j].violation_type = PII_IN_EXTERNAL
             /\ First.violations[j].severity = "high"
    /\ Decided /\ (HasSsn(DemoText) \/ HasAccountNumber(DemoText))
       => \E j \in 1..Len(response.violations) :
             /\ response.violations[j].type = "pii_in_external"
             /\ response.violations[j].severity = "high"

\* the string holds a performance-style token and no disclaimer phrase
UndisclosedPerformance(s) ==
    has_performance_match(Lower(s)) /\ ~any_disclaimer(Lower(s))

\* C13: a text with a performance-style token (a number followed by % and one
\* of return, performance, gain, yield, annual) and none of the disclaimer
\* phrases gets a missing_disclosure finding of severity high that counts
\* toward the number of high findings and the decision, on the checker.py
\* path as well as on the main.py path.
C13_MissingDisclosureFinding ==
    /\ Checked /\ UndisclosedPerformance(text)
       => /\ \E j \in Appended :
                /\ First.violations[j].violation_type = MISSING_DISCLOSURE
                /\ First.violations[j].severity = "high"
          /\ HighCount(First.violations) >= 1
          /\ First.decision \in {REQUIRES_CHANGES, REJECTED}
    /\ Decided /\ UndisclosedPerformance(DemoText)
       => /\ \E j \in 1..Len(response.violations) :
                /\ response.violations[j].type = "missing_disclosure"
                /\ response.violations[j].severity = "high"
          /\ HighCount(response.violations) >= 1
          /\ response.decision \in {"requires_changes", "rejected"}

\* _fact_check_narrative has returned (the first time)
Narrated == endpoint = "narrate" /\ passes # <<>>

\* the values of the numeric tokens of the narrative's scanned sections, in
\* token order
TokenValues ==
    LET numbers_in_text == findall(full_text(incoming), 0)
    IN  [i \in 1..Len(numbers_in_text) |-> float(numbers_in_text[i])]

\* num restates the value of the field, within the tolerance
Restates(num, field_name) == Abs(num - Abs(portfolio[field_name])) < Tolerance

\* C14: for every portfolio and every narrative that restates the value of a
\* numeric field of the portfolio (within 0.01), _fact_check_narrative
\* records that number with verified = true and a source_field whose value
\* it restates, for every numeric field of the record.
C14_RestatedNumberVerified ==
    Narrated
    => LET values == TokenValues
           cited  == First.numbers_cited
       IN  \A i \in DOMAIN values : \A k \in 1..Len(NumericFields) :
              Restates(values[i], NumericFields[k])
              => \E j \in 1..Len(cited) :
                    /\ cited[j].value = values[i]
                    /\ cited[j].verified
                    /\ Restates(values[i], cited[j].source_field)

\* num is within the tolerance of no entry of source_numbers
Unmatched(num) == \A k \in 1..Len(SourceFields) : ~Restates(num, SourceFields[k])

\* the number of tokens with value num, and of UNVERIFIED entries for it
TokenCount(values, num) == Cardinality({i \in DOMAIN values : values[i] = num})

UnverifiedCount(cited, num) ==
    Cardinality({j \in 1..Len(cited) :
        /\ cited[j].value = num
        /\ ~cited[j].verified
        /\ cited[j].source_field = UNVERIFIED})

\* C15 as stated: every numeric token of the narrative that matches no source
\* field within tolerance has its own entry in numbers_cited with verified =
\* false and source_field = "UNVERIFIED"; no such token is dropped.
C15_UnmatchedRecorded ==
    Narrated
    => LET values == TokenValues
           cited  == First.numbers_cited
       IN  \A i \in DOMAIN values :
              Unmatched(values[i])
              => UnverifiedCount(cited, values[i]) = TokenCount(values, values[i])

\* C15 amended: every numeric token with a value above 1 that matches no
\* field of source_numbers within tolerance has its own entry with verified =
\* false and source_field = "UNVERIFIED"; a token with a value of at most 1
\* that matches no field has no entry.
C15_LargeUnmatchedRecorded ==
    Narrated
    => LET values == TokenValues
           cited  == First.numbers_cited
       IN  \A i \in DOMAIN values :
              Unmatched(values[i])
              => IF values[i] > SmallNumber
                 THEN UnverifiedCount(cited, values[i]) = TokenCount(values, values[i])
                 ELSE \A j \in 1..Len(cited) : cited[j].value # values[i]

C15_Witness ==
    /\ Narrated
    /\ \E i \in DOMAIN TokenValues : Unmatched(TokenValues[i]) /\ TokenValues[i] = 1000
    /\ \E i \in DOMAIN TokenValues : Unmatched(TokenValues[i]) /\ TokenValues[i] = 500
    /\ \E j \in 1..Len(First.numbers_cited) :
          First.numbers_cited[j].value = 3000 /\ ~First.numbers_cited[j].verified

\* C16: after _fact_check_narrative, confidence_score is the number of
\* verified entries divided by max(1, number of entries of numbers_cited): 0
\* when no number is recorded, 1.0 when every recorded number is verified (as
\* for 14.2 and 1.15 against volatility_pct = 14.2 and sharpe_ratio = 1.15),
\* and always within [0, 1].
C16_ConfidenceRatio ==
    Narrated
    => LET cited == First.numbers_cited
           score == First.confidence_score
       IN  /\ score = (1000 * VerifiedCount(cited)) \div Max(1, Len(cited))
           /\ cited = <<>> => score = 0
           /\ cited # <<>> /\ (\A j \in 1..Len(cited) : cited[j].verified) => score = 1000
           /\ score \in 0..1000

C16_Witness ==
    /\ Narrated
    /\ full_text(incoming) = VolatilitySentence \o <<" ", " ">>
    /\ incoming.confidence_score = 900
    /\ Len(First.numbers_cited) = 2
    /\ First.numbers_cited[1] =
          [value |-> 14200, source_field |-> "volatility_pct", verified |-> TRUE]
    /\ First.numbers_cited[2] =
          [value |-> 1150, source_field |-> "sharpe_ratio", verified |-> TRUE]
    /\ First.confidence_score = 1000

\* C17: in every result, overall_risk_score and every *_score field lies in
\* [0.0, 1.0]: the risk scores of both compliance paths, the confidence_score
\* of the ComplianceReport (which arrives from the classifier), of the
\* meeting summary and of the narrative.
C17_ScoresInUnitInterval ==
    /\ Checked => /\ First.overall_risk_score \in 0..1000
                  /\ First.confidence_score \in 0..1000
    /\ Decided => response.risk_score \in 0..1000
    /\ Summarized => First.confidence_score \in 0..1000
    /\ Narrated => First.confidence_score \in 0..1000

\* C18: escalate is never the outcome of the deterministic path: whatever
\* decision the incoming report holds, _rule_based_checks returns approved,
\* requires_changes or rejected, and demo_compliance_check never returns
\* escalate.
C18_NeverEscalate ==
    /\ Checked => First.decision \in {APPROVED, REQUIRES_CHANGES, REJECTED}
    /\ Decided => response.decision \in {"approved", "requires_changes", "rejected"}

\* C19 as stated: after _rule_based_checks, _detect_pii or
\* _fact_check_narrative returns, the report, summary or narrative object
\* that was passed in is unchanged.
C19_ArgumentUnchanged ==
    /\ Checked => report = incoming
    /\ Summarized => summary = incoming
    /\ Narrated => narrative = incoming

\* a is a prefix of b
IsPrefix(a, b) == Len(a) <= Len(b) /\ SubSeq(b, 1, Len(a)) = a

\* C19 amended: _rule_based_checks, _detect_pii and _fact_check_narrative
\* update the object passed in and return that same object: after the call
\* the caller's object holds the result; the lists the rules append to keep
\* their incoming entries as a prefix, and the fields the rules do not write
\* (content flags, the model's confidence_score, the narrative's sections)
\* are as they were passed in.
C19_UpdatedInPlace ==
    /\ Checked
       => /\ report = passes[Len(passes)]
          /\ IsPrefix(incoming.violations, First.violations)
          /\ IsPrefix(incoming.warnings, First.warnings)
          /\ IsPrefix(incoming.required_disclosures, First.required_disclosures)
          /\ First.contains_performance_data = incoming.contains_performance_data
          /\ First.contains_recommendations = incoming.contains_recommendations
          /\ First.confidence_score = incoming.confidence_score
    /\ Summarized
       => /\ summary = passes[Len(passes)]
          /\ IsPrefix(incoming.compliance_flags, First.compliance_flags)
          /\ First.confidence_score = incoming.confidence_score
    /\ Narrated
       => /\ narrative = passes[Len(passes)]
          /\ First.executive_summary = incoming.executive_summary
          /\ First.performance_commentary = incoming.performance_commentary
          /\ First.risk_assessment = incoming.risk_assessment
          /\ First.allocation_commentary = incoming.allocation_commentary

C19_Witness ==
    /\ Summarized
    /\ Len(passes) = 1
    /\ summary # incoming
    /\ incoming.compliance_flags = <<LlmSuitability>>
    /\ incoming.confidence_score = 900
    /\ Len(summary.compliance_flags) = 2
    /\ summary.compliance_flags[2].flag = PII_EXPOSED

PiiCategories == {patterns[k].pii_type : k \in 1..Len(patterns)}

\* C21: the PII scan is idempotent and deterministic: _detect_pii run twice on
\* the same transcript yields the same pii_detected, a duplicate-free list
\* over {ssn, account_number, phone, email, dollar_amount} that holds a
\* category exactly when its pattern matches the transcript.
C21_PiiScanIdempotent ==
    Summarized
    => LET pii == First.pii_detected
       IN  /\ \A i \in 1..Len(pii) : \A j \in 1..Len(pii) : pii[i] = pii[j] => i = j
           /\ \A i \in 1..Len(pii) : pii[i] \in PiiCategories
           /\ \A k \in 1..Len(patterns) :
                 InList(patterns[k].pii_type, pii) <=> found(patterns[k].pattern, transcript)
           /\ \A n \in 1..Len(passes) : passes[n].pii_detected = pii

C21_Witness ==
    /\ Summarized
    /\ Len(passes) = 2
    /\ incoming.pii_detected = <<"names">>
    /\ passes[1].pii_detected = <<"ssn", "email">>
    /\ passes[2].pii_detected = <<"ssn", "email">>

\* the entries of fields (indices) whose value num restates
Near(num, fields) == {k \in 1..Len(fields) : Restates(num, fields[k])}

\* the first of them
FirstNear(num, fields) ==
    fields[CHOOSE k \in Near(num, fields) : \A j \in Near(num, fields) : k <= j]

\* C22: a numeric token within tolerance of several fields of the portfolio
\* gets exactly one entry, attributed to the first such field in the declared
\* field order of the record, even when a later field is closer in value.
C22_FirstFieldAttribution ==
    Narrated
    => LET values == TokenValues
           cited  == First.numbers_cited
       IN  \A i \in DOMAIN values :
              Cardinality(Near(values[i], NumericFields)) >= 2
              => /\ Cardinality({j \in 1..Len(cited) : cited[j].value = values[i]})
                       = TokenCount(values, values[i])
                 /\ \A j \in 1..Len(cited) :
                       cited[j].value = values[i]
                       => cited[j].source_field = FirstNear(values[i], NumericFields)


\* C23: with no finding of severity high, _rule_based_checks forces
\* requires_changes exactly when there are at least 3 findings and
\* the decision rule of demo_compliance_check when there are at least 2, so
\* that on the same finding set (and no warning) the two decisions differ only
\* when the set has size 2.
C23_ThresholdsDifferAtTwo ==
    Checked /\ HighCount(First.violations) = 0
    =>    /\ Len(First.violations) >= 3 => First.decision = REQUIRES_CHANGES
          /\ Len(First.violations) < 3 /\ incoming.decision # REQUIRES_CHANGES
             => First.decision # REQUIRES_CHANGES
          /\ Len(First.violations) >= 2
             => DemoDecision(First.violations) = "requires_changes"
          /\ First.warnings = <<>> /\ First.decision # DemoDecision(First.violations)
             => Len(First.violations) = 2


\* the client is a senior investor and the communication holds recommendations
SeniorRecommendation ==
    /\ Checked
    /\ client_context # NoContext /\ client_context.is_senior
    /\ incoming.contains_recommendations

\* the identical call for a client who is not a senior investor
NonSeniorCall == _rule_based_checks(incoming, text, [is_senior |-> FALSE])

\* C24: for a senior client and a communication with recommendations,
\* _rule_based_checks appends one warning and no finding: violations, the
\* number of high findings and overall_risk_score are those of the identical
\* call for a non-senior client, and the decision differs from that call's
\* only where there is no finding and the other call approves.
C24_SeniorWarningOnly ==
    SeniorRecommendation
    => LET other == NonSeniorCall
       IN  /\ First.warnings = Append(incoming.warnings, SENIOR_WARNING)
           /\ other.warnings = incoming.warnings
           /\ First.violations = other.violations
           /\ HighCount(First.violations) = HighCount(other.violations)
           /\ First.overall_risk_score = other.overall_risk_score
           /\ First.decision # other.decision
              => /\ First.violations = <<>>
                 /\ other.decision = APPROVED
                 /\ First.decision # APPROVED

C24_Witness ==
    /\ SeniorRecommendation
    /\ First.violations = <<>>
    /\ NonSeniorCall.decision = APPROVED
    /\ First.decision = REQUIRES_CHANGES
    /\ First.warnings = <<SENIOR_WARNING>>


\* the words of s: the maximal runs of word characters, as <<first, last>>
WordRuns(s) ==
    {r \in (1..Len(s)) \X (1..Len(s)) :
        /\ r[1] <= r[2]
        /\ \A p \in r[1]..r[2] : s[p] \in WordChar
        /\ r[1] = 1 \/ s[r[1] - 1] \notin WordChar
        /\ r[2] = Len(s) \/ s[r[2] + 1] \notin WordChar}

\* the number of words of s that belong to the lexicon
Occurrences(words, s) ==
    Cardinality({r \in WordRuns(s) : SubSeq(s, r[1], r[2]) \in words})

Unbalanced(violations) ==
    {i \in 1..Len(violations) : violations[i].type = "unbalanced_presentation"}

\* C25: demo_compliance_check emits an unbalanced_presentation finding, of
\* severity medium, exactly when the text has at least 3 occurrences of
\* positive words and no occurrence of a risk word; when it is the only
\* finding the decision is requires_changes and the risk score 0.2.
C25_UnbalancedPresentation ==
    Decided
    => LET text_lower == Lower(DemoText)
           violations == response.violations
       IN  /\ Unbalanced(violations) # {}
              <=> /\ Occurrences(PositiveWords, text_lower) >= 3
                  /\ Occurrences(RiskWords, text_lower) = 0
           /\ Cardinality(Unbalanced(violations)) <= 1
           /\ \A i \in Unbalanced(violations) : violations[i].severity = "medium"
           /\ Unbalanced(violations) = {1} /\ Len(violations) = 1
              => /\ response.decision = "requires_changes"
                 /\ response.risk_score = 200

C25_Witness ==
    /\ Decided
    /\ DemoText = Lead \o Superlatives \o <<" ", ".">>
    /\ Len(response.violations) = 1
    /\ response.violations[1].type = "unbalanced_presentation"
    /\ response.decision = "requires_changes"
    /\ response.risk_score = 200


\* the request has no text, or an empty one
MissingOrEmptyText == "text" \notin DOMAIN body \/ body.text = <<>>

\* the request has no portfolio, or an empty string or dictionary
MissingOrEmptyPortfolio ==
    "portfolio" \notin DOMAIN body \/ body.portfolio \in {[str |-> <<>>], [dict |-> <<>>]}

\* the response is an error result: no findings, no decision, no risk score
ErrorOnly == DOMAIN response = {"error"}

\* C26: demo_compliance_check and demo_risk_narrative answer a missing or
\* empty text or portfolio with an error result that carries nothing else;
\* demo_compliance_check answers every non-empty text with a decision and
\* never with an error; _rule_based_checks adds no finding on an empty text.
C26_EmptyInputRejected ==
    /\ endpoint = "demo" /\ response # NoResponse
       => IF MissingOrEmptyText
          THEN ErrorOnly
          ELSE /\ "error" \notin DOMAIN response
               /\ response.decision \in {"approved", "requires_changes", "rejected"}
               /\ response.input_length = Len(body.text)
    /\ endpoint = "narrative_demo" /\ response # NoResponse /\ MissingOrEmptyPortfolio
       => ErrorOnly
    /\ Checked /\ text = <<>> => First.violations = incoming.violations

C26_Witness ==
    /\ endpoint = "demo"
    /\ body = BodyWithoutText
    /\ response = [error |-> "Provide 'text' field with draft communication text"]


\* the fields of a ComplianceReport that _rule_based_checks does not write
FrameFields ==
    {"communication_type", "contains_performance_data", "contains_recommendations",
     "contains_projections", "applicable_rules", "suggested_revisions", "confidence_score"}

\* report b is report a with entries appended to its three lists
OnlyAppended(a, b) ==
    /\ IsPrefix(a.violations, b.violations)
    /\ IsPrefix(a.warnings, b.warnings)
    /\ IsPrefix(a.required_disclosures, b.required_disclosures)
    /\ \A f \in FrameFields : b[f] = a[f]

\* C27: _rule_based_checks only appends: the violations, warnings and
\* required_disclosures of the incoming report are a prefix, in order, of
\* the lists of the result, the rule-detected findings follow them in
\* detection order (promissory tokens, then the SSN), and communication_type,
\* the three content flags, applicable_rules, suggested_revisions and
\* confidence_score are unchanged; the same holds from one run to the next.
C27_OnlyAppends ==
    Checked
    => /\ OnlyAppended(incoming, First)
       /\ \A n \in 2..Len(passes) : OnlyAppended(passes[n - 1], passes[n])
       /\ \A i \in Appended : \A j \in Appended :
             /\ First.violations[i].violation_type = PII_IN_EXTERNAL
             /\ First.violations[j].violation_type = PROMISSORY_LANGUAGE
             => j < i

C27_Witness ==
    /\ Checked
    /\ incoming.violations # <<>> /\ Len(First.violations) = Len(incoming.violations) + 1
    /\ incoming.warnings # <<>> /\ Len(First.warnings) = Len(incoming.warnings) + 1
    /\ incoming.required_disclosures # <<>>
    /\ Len(First.required_disclosures) = Len(incoming.required_disclosures) + 1


\* C28: whenever the decision recalculation sets the decision to rejected
\* (the result is rejected and either the incoming decision was not, or there
\* are two high findings) the risk score is exactly 1.0, on both paths; in
\* demo_compliance_check the decision is approved exactly when the violation
\* list is empty, which is exactly when the risk score is 0.
C28_DecisionMatchesScore ==
    /\ Checked
       => \A n \in 1..Len(passes) :
             /\ passes[n].decision = REJECTED
             /\ incoming.decision # REJECTED \/ HighCount(passes[n].violations) >= 2
             => passes[n].overall_risk_score = 1000
    /\ Decided
       => /\ response.decision = "rejected" => response.risk_score = 1000
          /\ response.decision = "approved" <=> response.violations = <<>>
          /\ response.violations = <<>> <=> response.risk_score = 0

C28_Witness ==
    /\ Decided
    /\ DemoText = Example1
    /\ Len(response.violations) = 2
    /\ response.decision = "rejected"
    /\ response.risk_score = 1000


\* the entries a[i..] are, in order, among the entries b[j..]
RECURSIVE Embeds(_, _, _, _)
Embeds(a, i, b, j) ==
    IF i > Len(a) THEN TRUE
    ELSE IF j > Len(b) THEN FALSE
    ELSE IF a[i] = b[j] THEN Embeds(a, i + 1, b, j + 1)
    ELSE Embeds(a, i, b, j + 1)

\* the narrative as it would come from a model that cites nothing
Uncited == [incoming EXCEPT !.numbers_cited = <<>>, !.confidence_score = 0]

\* C29: after _fact_check_narrative every entry of numbers_cited has verified
\* = true exactly when its source_field is not "UNVERIFIED"; the values of the
\* entries are, in order, values of distinct tokens of the text (at most one
\* entry per token, in token order); and the numbers_cited and
\* confidence_score the narrative came with are replaced by computed ones,
\* which do not depend on them.
C29_CitedEntries ==
    Narrated
    => LET values == TokenValues
           cited  == First.numbers_cited
       IN  /\ \A j \in 1..Len(cited) :
                 cited[j].verified <=> cited[j].source_field # UNVERIFIED
           /\ Embeds([j \in 1..Len(cited) |-> cited[j].value], 1, values, 1)
           /\ First.confidence_score = (1000 * VerifiedCount(cited)) \div Max(1, Len(cited))
           /\ First = _fact_check_narrative(Uncited, portfolio)

C29_Witness ==
    /\ Narrated
    /\ incoming.numbers_cited = LlmCited /\ incoming.confidence_score = 900
    /\ Len(First.numbers_cited) = 3 /\ Len(TokenValues) = 4
    /\ First.numbers_cited[1].verified
    /\ ~First.numbers_cited[2].verified
    /\ First.confidence_score = 333


\* the call of _chunk_text has returned
Returned == endpoint = "chunk" /\ chunker.pc = "returned"

\* the condition under which the loop advances, or has nothing to do
Advances == rag.chunk_overlap < rag.chunk_size \/ chunker.text = <<>>

\* chunk indices are 0..n-1 and chunk i starts at i * (chunk_size - chunk_overlap)
ChunksNumbered ==
    \A i \in 1..Len(chunker.chunks) :
        LET chunk == chunker.chunks[i]
        IN  /\ chunk.metadata.chunk_index = i - 1
            /\ chunk.metadata.char_start = (i - 1) * (rag.chunk_size - rag.chunk_overlap)
            /\ chunk.id = <<chunker.source, "_", i - 1>>

\* every character of the text is in a chunk, at its place
ChunksCover ==
    \A p \in 1..Len(chunker.text) :
        \E i \in 1..Len(chunker.chunks) :
            LET chunk == chunker.chunks[i]
                off   == p - chunk.metadata.char_start
            IN  /\ off \in 1..Len(chunk.text)
                /\ chunk.text[off] = chunker.text[p]

\* C30: _chunk_text returns exactly when chunk_overlap < chunk_size or the
\* text is empty; when it has returned, the chunk indices are 0..n-1, chunk i
\* starts at i * (chunk_size - chunk_overlap), and with chunk_overlap >= 0 the
\* chunks together cover every character of the text.
C30_ChunkTextTerminates ==
    /\ (endpoint = "chunk" /\ Advances) ~> Returned
    /\ [](endpoint = "chunk" /\ ~Advances => ~Returned)
    /\ [](Returned => ChunksNumbered /\ (rag.chunk_overlap >= 0 => ChunksCover))

C30_Witness ==
    /\ Returned
    /\ rag = [chunk_size |-> 3, chunk_overlap |-> 1]
    /\ Len(chunker.text) = 6
    /\ Len(chunker.chunks) = 3
    /\ chunker.chunks[3].text = <<"e", "f">>

=============================================================================
